---- MODULE Spec2Model ----
(***************************************************************************)
(* Model of sqlite-mcp: the database wrapper (internal/database), the tool *)
(* dispatcher (internal/tools), the resource dispatcher                    *)
(* (internal/resources) and the registration done by cmd/server.           *)
(*                                                                         *)
(* SQL text is a sequence of lexemes (strings), white space included.  The *)
(* dispatcher's prefix check works on the characters of the text (Explode),*)
(* the SQLite driver on its statements (ParseText).                        *)
(***************************************************************************)
EXTENDS Integers, Sequences, FiniteSets, TLC

\* ------------------------------------------------------------------------
\* Bounds
\* ------------------------------------------------------------------------
\* largest number of rows a table holds in the explored states
MaxRows == 3

\* ------------------------------------------------------------------------
\* Strings (package strings), on character sequences
\* ------------------------------------------------------------------------
IsSpace(c) == c \in {" ", "\t", "\n"}

\* the characters of a lexeme; lexemes that cannot begin with the letters of
\* SELECT in either case are kept as one opaque unit
Chars(lex) ==
  CASE lex = "SELECT" -> <<"S", "E", "L", "E", "C", "T">>
    [] lex = "select" -> <<"s", "e", "l", "e", "c", "t">>
    [] lex = "Select" -> <<"S", "e", "l", "e", "c", "t">>
    [] lex = "SELECTED" -> <<"S", "E", "L", "E", "C", "T", "E", "D">>
    [] lex = "SEL" -> <<"S", "E", "L">>
    [] OTHER -> <<lex>>

RECURSIVE Explode(_)
Explode(text) ==
  IF text = <<>> THEN <<>> ELSE Chars(Head(text)) \o Explode(Tail(text))

UpperChar(c) ==
  CASE c = "s" -> "S"
    [] c = "e" -> "E"
    [] c = "l" -> "L"
    [] c = "c" -> "C"
    [] c = "t" -> "T"
    [] OTHER -> c

ToUpper(s) == [i \in 1..Len(s) |-> UpperChar(s[i])]

RECURSIVE TrimLeft(_)
TrimLeft(s) ==
  IF s # <<>> /\ IsSpace(Head(s)) THEN TrimLeft(Tail(s)) ELSE s

RECURSIVE TrimRight(_)
TrimRight(s) ==
  IF s # <<>> /\ IsSpace(s[Len(s)])
  THEN TrimRight(SubSeq(s, 1, Len(s) - 1))
  ELSE s

TrimSpace(s) == TrimRight(TrimLeft(s))

HasPrefix(s, prefix) ==
  Len(s) >= Len(prefix) /\ SubSeq(s, 1, Len(prefix)) = prefix

SELECT == <<"S", "E", "L", "E", "C", "T">>

\* ------------------------------------------------------------------------
\* Values of the driver: NULL, INTEGER, REAL, TEXT, BLOB
\* ------------------------------------------------------------------------
Null == [t |-> "null", v |-> "NULL"]
IntV(n) == [t |-> "int", v |-> n]
RealV(r) == [t |-> "real", v |-> r]
TextV(s) == [t |-> "text", v |-> s]
BlobV(s) == [t |-> "blob", v |-> s]

NoValue == [t |-> "none", v |-> "none"]

\* the value of a literal lexeme; NoValue for a lexeme that is no literal
Literal(lex) ==
  CASE lex = "NULL" -> Null
    [] lex = "1" -> IntV(1)
    [] lex = "35" -> IntV(35)
    [] lex = "9e999" -> RealV("+Inf")
    [] lex = "x'4142'" -> BlobV("AB")
    [] lex = "'Charlie'" -> TextV("Charlie")
    [] lex = "'c@x.com'" -> TextV("c@x.com")
    [] lex = "'Dave'" -> TextV("Dave")
    [] lex = "'d@x.com'" -> TextV("d@x.com")
    [] OTHER -> NoValue

\* ------------------------------------------------------------------------
\* The SQL the driver understands
\* ------------------------------------------------------------------------
RECURSIVE IndexFrom(_, _, _)
IndexFrom(s, x, i) ==
  IF i > Len(s) THEN 0 ELSE IF s[i] = x THEN i ELSE IndexFrom(s, x, i + 1)

\* position of the first x in s, 0 when there is none
IndexOf(s, x) == IndexFrom(s, x, 1)

RECURSIVE Split(_, _)
Split(s, sep) ==
  LET i == IndexOf(s, sep)
  IN IF i = 0 THEN <<s>>
     ELSE <<SubSeq(s, 1, i - 1)>> \o Split(SubSeq(s, i + 1, Len(s)), sep)

\* a comment runs from "--" to the end of the text (all texts are one line)
StripComment(text) ==
  LET i == IndexOf(text, "--")
  IN IF i = 0 THEN text ELSE SubSeq(text, 1, i - 1)

\* keywords are case-insensitive
Keyword(lex) ==
  CASE lex \in {"select", "Select", "SELECT"} -> "SELECT"
    [] lex \in {"insert", "INSERT"} -> "INSERT"
    [] lex \in {"pragma", "PRAGMA"} -> "PRAGMA"
    [] OTHER -> lex

Words(segment) ==
  LET w == SelectSeq(segment, LAMBDA x : ~IsSpace(x))
  IN [i \in 1..Len(w) |-> Keyword(w[i])]

SyntaxError == [op |-> "syntax"]

\* every element of a split list is exactly one lexeme
Singles(items) == \A i \in 1..Len(items) : Len(items[i]) = 1
Firsts(items) == [i \in 1..Len(items) |-> items[i][1]]

UserTableFilter == "WHERE type='table' AND name NOT LIKE 'sqlite_%'"

OrderClauses == {"ORDER BY name", "ORDER BY id"}

\* a select item is one lexeme, or a lexeme with an alias: expr AS label
IsItem(item) == Len(item) = 1 \/ (Len(item) = 3 /\ item[2] = "AS")
Labels(items) ==
  [i \in 1..Len(items) |-> IF Len(items[i]) = 3 THEN items[i][3] ELSE items[i][1]]

\* SELECT items [FROM table [WHERE ...] [ORDER BY ...]]
ParseSelect(w) ==
  LET f == IndexOf(w, "FROM")
      last == IF f = 0 THEN Len(w) ELSE f - 1
      items == Split(SubSeq(w, 2, last), ",")
      rest == IF f = 0 \/ Len(w) < f + 2 THEN <<>> ELSE SubSeq(w, f + 2, Len(w))
      hasWhere == rest # <<>> /\ rest[1] = UserTableFilter
      after == IF hasWhere THEN Tail(rest) ELSE rest
      ast(table, where) ==
        [op |-> "select", cols |-> Firsts(items), labels |-> Labels(items),
         table |-> table, where |-> where]
  IN IF last < 2 \/ \E i \in 1..Len(items) : ~IsItem(items[i]) THEN SyntaxError
     ELSE IF f = 0 THEN ast("", "")
     ELSE IF Len(w) < f + 1 \/ Len(after) > 1
               \/ (Len(after) = 1 /\ after[1] \notin OrderClauses)
     THEN SyntaxError
     ELSE ast(w[f + 1], IF hasWhere THEN UserTableFilter ELSE "")

ParseInsert(w) ==
  LET c == IndexOf(w, ")")
  IN IF Len(w) < 10 \/ w[2] # "INTO" \/ w[4] # "(" \/ c < 6 \/ c + 3 > Len(w) - 1
     THEN SyntaxError
     ELSE IF w[c + 1] # "VALUES" \/ w[c + 2] # "(" \/ w[Len(w)] # ")"
     THEN SyntaxError
     ELSE LET cols == Split(SubSeq(w, 5, c - 1), ",")
              vals == Split(SubSeq(w, c + 3, Len(w) - 1), ",")
          IN IF ~Singles(cols) \/ ~Singles(vals) \/ Len(cols) # Len(vals)
             THEN SyntaxError
             ELSE [op |-> "insert", table |-> w[3],
                   cols |-> Firsts(cols), vals |-> Firsts(vals)]

ParseStmt(w) ==
  IF w = <<>> THEN [op |-> "empty"]
  ELSE CASE w[1] = "SELECT" -> ParseSelect(w)
         [] w[1] = "INSERT" -> ParseInsert(w)
         [] w[1] = "DELETE" ->
              IF Len(w) = 3 /\ w[2] = "FROM"
              THEN [op |-> "delete", table |-> w[3]] ELSE SyntaxError
         [] w[1] = "CREATE" ->
              IF Len(w) = 7 /\ w[2] = "TABLE" /\ w[4] = "(" /\ w[7] = ")"
              THEN [op |-> "create", table |-> w[3], col |-> w[5], type |-> w[6]]
              ELSE SyntaxError
         [] w[1] = "DROP" ->
              IF Len(w) = 3 /\ w[2] = "TABLE"
              THEN [op |-> "drop", table |-> w[3]] ELSE SyntaxError
         [] w[1] = "PRAGMA" ->
              IF Len(w) = 5 /\ w[2] = "table_info" /\ w[3] = "(" /\ w[5] = ")"
              THEN [op |-> "table_info", table |-> w[4]] ELSE SyntaxError
         [] w[1] = "BEGIN" -> IF Len(w) = 1 THEN [op |-> "begin"] ELSE SyntaxError
         [] w[1] = "COMMIT" -> IF Len(w) = 1 THEN [op |-> "commit"] ELSE SyntaxError
         [] w[1] = "ROLLBACK" -> IF Len(w) = 1 THEN [op |-> "rollback"] ELSE SyntaxError
         [] OTHER -> SyntaxError

\* the statements of a text, in order: the text is cut at each ";"
Segments(text) == Split(StripComment(text), ";")


\* ------------------------------------------------------------------------
\* Database contents: table name -> [cols, rows]; a row is the sequence of
\* its values in the order of the table's columns
\* ------------------------------------------------------------------------
Col(n, ty, nn, pk, uq) ==
  [name |-> n, type |-> ty, notnull |-> nn, pk |-> pk, unique |-> uq]

UsersCols ==
  << Col("id", "INTEGER", 0, 1, TRUE), Col("name", "TEXT", 1, 0, FALSE),
     Col("email", "TEXT", 0, 0, TRUE), Col("age", "INTEGER", 0, 0, FALSE) >>

ProductsCols ==
  << Col("id", "INTEGER", 0, 1, TRUE), Col("name", "TEXT", 1, 0, FALSE),
     Col("price", "REAL", 0, 0, FALSE) >>

EmptyDB == << >>

\* the database of testutil.CreateTestDB
FixtureDB ==
  [n \in {"users", "products"} |->
     IF n = "users"
     THEN [cols |-> UsersCols,
           rows |-> << <<IntV(1), TextV("Alice"), TextV("alice@example.com"), IntV(30)>>,
                       <<IntV(2), TextV("Bob"), TextV("bob@example.com"), IntV(25)>> >>]
     ELSE [cols |-> ProductsCols,
           rows |-> << <<IntV(1), TextV("Widget"), RealV("9.99")>>,
                       <<IntV(2), TextV("Gadget"), RealV("19.99")>> >>]]

Tables(st) == DOMAIN st

ColNames(cols) == [i \in 1..Len(cols) |-> cols[i].name]

\* lexicographic rank of the names the model uses (ORDER BY name)
NameRank(n) ==
  CASE n = "my table" -> 0
    [] n = "notes" -> 1
    [] n = "products" -> 2
    [] n = "sqlite_sequence" -> 3
    [] n = "sqlitedata" -> 4
    [] n = "users" -> 5
    [] OTHER -> 6

RECURSIVE SortByName(_)
SortByName(names) ==
  IF names = {} THEN <<>>
  ELSE LET m == CHOOSE x \in names : \A y \in names : NameRank(x) <= NameRank(y)
       IN <<m>> \o SortByName(names \ {m})

\* the characters of a table name
Letters(n) ==
  CASE n = "sqlite_sequence" ->
         <<"s", "q", "l", "i", "t", "e", "_", "s", "e", "q", "u", "e", "n", "c", "e">>
    [] n = "sqlite_master" ->
         <<"s", "q", "l", "i", "t", "e", "_", "m", "a", "s", "t", "e", "r">>
    [] n = "sqlitedata" -> <<"s", "q", "l", "i", "t", "e", "d", "a", "t", "a">>
    [] n = "users" -> <<"u", "s", "e", "r", "s">>
    [] n = "products" -> <<"p", "r", "o", "d", "u", "c", "t", "s">>
    [] n = "notes" -> <<"n", "o", "t", "e", "s">>
    [] n = "my table" -> <<"m", "y", " ", "t", "a", "b", "l", "e">>
    [] OTHER -> <<n>>

\* the LIKE operator: "_" stands for any one character, "%" for any run of
\* characters (the names of the model are in lower case, as the pattern is)
RECURSIVE Like(_, _)
Like(s, p) ==
  IF p = <<>> THEN s = <<>>
  ELSE IF Head(p) = "%" THEN Like(s, Tail(p)) \/ (s # <<>> /\ Like(Tail(s), p))
  ELSE s # <<>> /\ Head(p) \in {"_", Head(s)} /\ Like(Tail(s), Tail(p))

\* name LIKE 'sqlite_%'
IsInternal(n) == Like(Letters(n), <<"s", "q", "l", "i", "t", "e", "_", "%">>)

\* names that begin with sqlite_ are reserved for the tables SQLite keeps
Reserved(n) == HasPrefix(Letters(n), <<"s", "q", "l", "i", "t", "e", "_">>)

\* ------------------------------------------------------------------------
\* One statement on the database (sqlite3_prepare_v2, bind, sqlite3_step)
\* ------------------------------------------------------------------------
Outcome(err, st, cols, rows, affected) ==
  [err |-> err, st |-> st, cols |-> cols, rows |-> rows, affected |-> affected]

Failed(msg, st) == Outcome(msg, st, <<>>, <<>>, 0)

ReadOnlyMsg == "attempt to write a readonly database"

\* number of "?" among the first i lexemes
RECURSIVE ParamsUpTo(_, _)
ParamsUpTo(lexs, i) ==
  IF i = 0 THEN 0
  ELSE ParamsUpTo(lexs, i - 1) + (IF lexs[i] = "?" THEN 1 ELSE 0)

\* the value lexeme i of lexs stands for: a bound parameter or a literal
ValueOf(lexs, i, params) ==
  IF lexs[i] = "?"
  THEN IF ParamsUpTo(lexs, i) <= Len(params)
       THEN TextV(params[ParamsUpTo(lexs, i)]) ELSE NoValue
  ELSE Literal(lexs[i])

\* column affinity: numeric text stored in an INTEGER column becomes an integer
Affinity(type, v) ==
  IF type = "INTEGER" /\ v = TextV("35") THEN IntV(35) ELSE v

ColIndex(cols, n) ==
  IF \E i \in 1..Len(cols) : cols[i].name = n
  THEN CHOOSE i \in 1..Len(cols) : cols[i].name = n
  ELSE 0

MaxId(rows) ==
  IF rows = <<>> THEN 0
  ELSE CHOOSE m \in {rows[i][1].v : i \in 1..Len(rows)} :
         \A i \in 1..Len(rows) : rows[i][1].v <= m

ItemNames(item, label, cols) ==
  IF item = "*" THEN ColNames(cols) ELSE <<label>>

RECURSIVE Concat(_)
Concat(seqs) == IF seqs = <<>> THEN <<>> ELSE Head(seqs) \o Concat(Tail(seqs))

ExecSelect(ast, st, params) ==
  IF ast.table = ""
  THEN LET vals == [i \in 1..Len(ast.cols) |-> ValueOf(ast.cols, i, params)]
       IN IF \E i \in 1..Len(vals) : vals[i] = NoValue
          THEN Failed("no such column", st)
          ELSE Outcome("", st, ast.labels, <<vals>>, 0)
  ELSE IF ast.table = "sqlite_master"
  THEN IF ast.cols # <<"name">> THEN Failed("no such column", st)
       ELSE LET shown == IF ast.where = UserTableFilter
                         THEN {n \in Tables(st) : ~IsInternal(n)}
                         ELSE Tables(st)
                names == SortByName(shown)
            IN Outcome("", st, <<"name">>,
                       [i \in 1..Len(names) |-> <<TextV(names[i])>>], 0)
  ELSE IF ast.table \notin Tables(st) THEN Failed("no such table", st)
  ELSE LET t == st[ast.table]
           known(item) == item \in {"*", "COUNT(*)"} \/ ColIndex(t.cols, item) # 0
                            \/ Literal(item) # NoValue
       IN IF \E i \in 1..Len(ast.cols) : ~known(ast.cols[i])
          THEN Failed("no such column", st)
          ELSE IF ast.cols = <<"COUNT(*)">>
          THEN Outcome("", st, ast.labels, << <<IntV(Len(t.rows))>> >>, 0)
          ELSE IF \E i \in 1..Len(ast.cols) : ast.cols[i] = "COUNT(*)"
          THEN Failed("misuse of aggregate", st)
          ELSE LET names == Concat([i \in 1..Len(ast.cols) |-> ItemNames(ast.cols[i], ast.labels[i], t.cols)])
                   lexs == Concat([i \in 1..Len(ast.cols) |->
                                     IF ast.cols[i] = "*" THEN ColNames(t.cols)
                                     ELSE <<ast.cols[i]>>])
                   cell(r, j) == IF ColIndex(t.cols, lexs[j]) # 0
                                 THEN r[ColIndex(t.cols, lexs[j])]
                                 ELSE Literal(lexs[j])
               IN Outcome("", st, names,
                          [i \in 1..Len(t.rows) |->
                             [j \in 1..Len(lexs) |-> cell(t.rows[i], j)]], 0)

ExecInsert(ast, st, ro, params) ==
  IF ast.table \notin Tables(st) \/ Reserved(ast.table)
  THEN Failed("no such table", st)
  ELSE LET t == st[ast.table]
           listed(j) == IndexOf(ast.cols, t.cols[j].name)
           given(j) == Affinity(t.cols[j].type, ValueOf(ast.vals, listed(j), params))
           auto(j) == t.cols[j].pk = 1 /\ (listed(j) = 0 \/ given(j) = Null)
           val(j) == IF auto(j) THEN IntV(MaxId(t.rows) + 1)
                     ELSE IF listed(j) = 0 THEN Null ELSE given(j)
           row == [j \in 1..Len(t.cols) |-> val(j)]
       IN IF \E i \in 1..Len(ast.cols) : ColIndex(t.cols, ast.cols[i]) = 0
          THEN Failed("no such column", st)
          ELSE IF \E i \in 1..Len(ast.vals) : ValueOf(ast.vals, i, params) = NoValue
          THEN Failed("missing argument", st)
          ELSE IF ro THEN Failed(ReadOnlyMsg, st)
          ELSE IF \E j \in 1..Len(t.cols) : t.cols[j].notnull = 1 /\ row[j] = Null
          THEN Failed("NOT NULL constraint failed", st)
          ELSE IF \E j \in 1..Len(t.cols) : t.cols[j].unique /\ row[j] # Null
                    /\ \E i \in 1..Len(t.rows) : t.rows[i][j] = row[j]
          THEN Failed("UNIQUE constraint failed", st)
          ELSE Outcome("", [st EXCEPT ![ast.table].rows = Append(@, row)],
                       <<>>, <<>>, 1)

Without(st, n) == [x \in Tables(st) \ {n} |-> st[x]]

With(st, n, t) == [x \in Tables(st) \cup {n} |-> IF x = n THEN t ELSE st[x]]

TableInfoCols == <<"cid", "name", "type", "notnull", "dflt_value", "pk">>

TableInfoRow(cols, i) ==
  <<IntV(i - 1), TextV(cols[i].name), TextV(cols[i].type),
    IntV(cols[i].notnull), Null, IntV(cols[i].pk)>>

ExecStmt(ast, st, ro, params) ==
  CASE ast.op = "syntax" -> Failed("syntax error", st)
    [] ast.op = "empty" -> Outcome("", st, <<>>, <<>>, 0)
    [] ast.op = "select" -> ExecSelect(ast, st, params)
    [] ast.op = "insert" -> ExecInsert(ast, st, ro, params)
    [] ast.op = "delete" ->
         IF ast.table \notin Tables(st) THEN Failed("no such table", st)
         ELSE IF ro THEN Failed(ReadOnlyMsg, st)
         ELSE Outcome("", [st EXCEPT ![ast.table].rows = <<>>], <<>>, <<>>,
                      Len(st[ast.table].rows))
    [] ast.op = "create" ->
         IF ast.table \in Tables(st) THEN Failed("table already exists", st)
         ELSE IF ro THEN Failed(ReadOnlyMsg, st)
         ELSE Outcome("", With(st, ast.table,
                               [cols |-> <<Col(ast.col, ast.type, 0, 0, FALSE)>>,
                                rows |-> <<>>]),
                      <<>>, <<>>, 0)
    [] ast.op = "drop" ->
         IF ast.table \notin Tables(st) THEN Failed("no such table", st)
         ELSE IF ro THEN Failed(ReadOnlyMsg, st)
         ELSE Outcome("", Without(st, ast.table), <<>>, <<>>, 0)
    [] ast.op = "table_info" ->
         IF ast.table \in Tables(st)
         THEN Outcome("", st, TableInfoCols,
                      [i \in 1..Len(st[ast.table].cols) |->
                         TableInfoRow(st[ast.table].cols, i)], 0)
         ELSE Outcome("", st, TableInfoCols, <<>>, 0)


\* ------------------------------------------------------------------------
\* The driver (modernc.org/sqlite behind database/sql): a text is run
\* statement by statement; an error ends the run and keeps what the earlier
\* statements did
\* ------------------------------------------------------------------------
\* nothing is left of the text after statement k (the tail pointer is at the
\* terminating NUL)
\* the transaction of a connection: tx holds nothing in autocommit mode, and
\* the database as it was at BEGIN while a transaction is open
TxOps == {"begin", "commit", "rollback"}

\* BEGIN, COMMIT or ROLLBACK on the database st of a connection
ExecTx(op, st, tx) ==
  CASE op = "begin" ->
         IF tx # <<>> THEN Failed("cannot start a transaction within a transaction", st)
         ELSE Outcome("", st, <<>>, <<>>, 0)
    [] op = "commit" ->
         IF tx = <<>> THEN Failed("cannot commit - no transaction is active", st)
         ELSE Outcome("", st, <<>>, <<>>, 0)
    [] OTHER ->
         IF tx = <<>> THEN Failed("cannot rollback - no transaction is active", st)
         ELSE Outcome("", tx[1], <<>>, <<>>, 0)

\* the transaction once a statement of kind op has run on st without error
TxAfter(op, st, tx) ==
  CASE op = "begin" -> <<st>>
    [] op \in {"commit", "rollback"} -> <<>>
    [] OTHER -> tx

\* one statement on a connection
Step(ast, st, ro, tx, params) ==
  IF ast.op \in TxOps THEN ExecTx(ast.op, st, tx) ELSE ExecStmt(ast, st, ro, params)

\* what the driver hands back, and the transaction it leaves open
Ended(o, tx) ==
  [err |-> o.err, st |-> o.st, cols |-> o.cols, rows |-> o.rows,
   affected |-> o.affected, tx |-> tx]

IsFinal(segs, k) ==
  k = Len(segs) \/ (k = Len(segs) - 1 /\ segs[Len(segs)] = <<>>)

NoRows == [has |-> FALSE, cols |-> <<>>, rows |-> <<>>]

\* conn.Query: the rows handed back are those of the last statement that
\* produced a row, unless the final statement produced none
RECURSIVE QueryFrom(_, _, _, _, _, _, _)

\* statement k has run with outcome o: its rows replace r, the run goes on
\* the rows kept once statement k has run with outcome o
Kept(segs, k, r, op, o) ==
  IF op = "empty" THEN r
  ELSE IF o.rows # <<>> THEN [has |-> TRUE, cols |-> o.cols, rows |-> o.rows]
  ELSE IF ~r.has \/ IsFinal(segs, k) THEN [has |-> TRUE, cols |-> o.cols, rows |-> <<>>]
  ELSE r

QueryNext(segs, k, st, ro, tx, params, r, op, o) ==
  IF o.err # "" THEN Ended(Failed(o.err, o.st), tx)
  ELSE QueryFrom(segs, k + 1, o.st, ro, TxAfter(op, st, tx), params,
                 Kept(segs, k, r, op, o))

\* statement k, prepared as ast, is run
QueryStmt(segs, k, st, ro, tx, params, r, ast) ==
  QueryNext(segs, k, st, ro, tx, params, r, ast.op, Step(ast, st, ro, tx, params))

QueryFrom(segs, k, st, ro, tx, params, r) ==
  IF k > Len(segs) THEN Ended(Outcome("", st, r.cols, r.rows, 0), tx)
  ELSE QueryStmt(segs, k, st, ro, tx, params, r, ParseStmt(Words(segs[k])))

\* conn.Exec: every statement is run; the count is that of the last one
RECURSIVE ExecFrom(_, _, _, _, _, _, _)

ExecNext(segs, k, st, ro, tx, params, affected, op, o) ==
  IF o.err # "" THEN Ended(Failed(o.err, o.st), tx)
  ELSE ExecFrom(segs, k + 1, o.st, ro, TxAfter(op, st, tx), params,
                IF op = "empty" THEN affected ELSE o.affected)

ExecStmtOf(segs, k, st, ro, tx, params, affected, ast) ==
  ExecNext(segs, k, st, ro, tx, params, affected, ast.op,
           Step(ast, st, ro, tx, params))

ExecFrom(segs, k, st, ro, tx, params, affected) ==
  IF k > Len(segs) THEN Ended(Outcome("", st, <<>>, <<>>, affected), tx)
  ELSE ExecStmtOf(segs, k, st, ro, tx, params, affected, ParseStmt(Words(segs[k])))

ClosedMsg == "sql: database is closed"

\* c is the connection: [state, ro, tx]
ConnQuery(c, st, text, params) ==
  IF c.state # "open" THEN Ended(Failed(ClosedMsg, st), c.tx)
  ELSE QueryFrom(Segments(text), 1, st, c.ro, c.tx, params, NoRows)

ConnExec(c, st, text, params) ==
  IF c.state # "open" THEN Ended(Failed(ClosedMsg, st), c.tx)
  ELSE ExecFrom(Segments(text), 1, st, c.ro, c.tx, params, 0)


\* ------------------------------------------------------------------------
\* internal/database: the wrapper
\* ------------------------------------------------------------------------
InMemoryDB == ":memory:"

\* the file that exists on disk; every other path names no file
ExistingFile == "/data/test.db"

\* a path that runs through the file as if it were a directory
BelowFile == "/data/test.db/x"

\* os.Stat: nil for the file, ENOTDIR below it, ENOENT elsewhere
Stat(path) ==
  CASE path = ExistingFile -> "ok"
    [] path = BelowFile -> "ENOTDIR"
    [] OTHER -> "ENOENT"

\* os.IsNotExist
IsNotExist(e) == e = "ENOENT"

FileExists(path) == Stat(path) = "ok"

NoConn == [state |-> "none", ro |-> FALSE, tx |-> <<>>]

\* the connection string New builds: the mode parameter is added to file
\* paths only
DSN(dbPath, readOnly) ==
  IF dbPath = InMemoryDB THEN [memory |-> TRUE, path |-> dbPath, mode |-> ""]
  ELSE [memory |-> FALSE, path |-> dbPath, mode |-> IF readOnly THEN "ro" ELSE "rwc"]

\* sql.Open and Ping on a connection string: the driver refuses writes on a
\* connection opened with mode=ro; an in-memory database starts empty; a
\* file is opened where it exists, created with mode=rwc where nothing
\* exists, and cannot be opened otherwise
DriverOpen(dsn, disk) ==
  IF dsn.memory \/ (Stat(dsn.path) = "ENOENT" /\ dsn.mode = "rwc")
  THEN [err |-> "", conn |-> [state |-> "open", ro |-> dsn.mode = "ro", tx |-> <<>>], st |-> EmptyDB]
  ELSE IF FileExists(dsn.path)
  THEN [err |-> "", conn |-> [state |-> "open", ro |-> dsn.mode = "ro", tx |-> <<>>], st |-> disk]
  ELSE [err |-> "unable to open database file", conn |-> NoConn, st |-> disk]

\* New(dbPath, readOnly): disk is what the file holds; opened tells whether
\* the driver was asked for a connection
New(dbPath, readOnly, disk) ==
  IF dbPath # InMemoryDB /\ IsNotExist(Stat(dbPath))
  THEN [err |-> "database file does not exist", conn |-> NoConn, st |-> disk,
        opened |-> FALSE]
  ELSE LET o == DriverOpen(DSN(dbPath, readOnly), disk)
       IN IF o.err # ""
          THEN [err |-> "failed to ping database", conn |-> NoConn, st |-> disk,
                opened |-> TRUE]
          ELSE [err |-> "", conn |-> o.conn, st |-> o.st, opened |-> TRUE]

\* a scanned value as the row map holds it: []byte becomes string
Scanned(v) == IF v.t = "blob" THEN TextV(v.v) ELSE v

\* the map built for one row: a later column of the same name overwrites an
\* earlier one
RowMap(cols, row) ==
  [n \in {cols[j] : j \in 1..Len(cols)} |->
     LET j == CHOOSE k \in 1..Len(cols) :
                cols[k] = n /\ \A m \in 1..Len(cols) : cols[m] = n => m <= k
     IN Scanned(row[j])]

Op(kind, text, params) == [kind |-> kind, text |-> text, params |-> params]

\* the connection once the wrapper operations ops have run on it: the one
\* pooled connection keeps the transaction a text has left open
Session(c, st, ops) ==
  IF ops = <<>> THEN c
  ELSE IF ops[1].kind = "query"
  THEN [c EXCEPT !.tx = ConnQuery(c, st, ops[1].text, ops[1].params).tx]
  ELSE [c EXCEPT !.tx = ConnExec(c, st, ops[1].text, ops[1].params).tx]

\* what Query makes of the driver's answer o: the error wrapped, or one map
\* for each row
QueryResults(o, query, args) ==
  IF o.err # ""
  THEN [err |-> <<"query failed", o.err>>, results |-> <<>>, st |-> o.st,
        ops |-> <<Op("query", query, args)>>]
  ELSE [err |-> <<>>,
        results |-> [i \in 1..Len(o.rows) |-> RowMap(o.cols, o.rows[i])],
        st |-> o.st, ops |-> <<Op("query", query, args)>>]

\* DB.Query
Query(c, st, query, args) ==
  QueryResults(ConnQuery(c, st, query, args), query, args)

\* what Execute makes of the driver's answer o: the error wrapped, or the
\* number of rows affected
RowsAffected(o, statement, args) ==
  IF o.err # ""
  THEN [err |-> <<"execution failed", o.err>>, rowsAffected |-> 0,
        st |-> o.st, ops |-> <<Op("exec", statement, args)>>]
  ELSE [err |-> <<>>, rowsAffected |-> o.affected, st |-> o.st,
        ops |-> <<Op("exec", statement, args)>>]

\* Execute whose statement runs in a transaction that is never committed
Execute_Uncommitted(c, st, statement, args) ==
  [RowsAffected(ConnExec(c, st, statement, args), statement, args) EXCEPT !.st = st]

\* DB.Execute
Execute(c, st, statement, args) ==
  RowsAffected(ConnExec(c, st, statement, args), statement, args)

GetTablesQuery ==
  <<"SELECT", " ", "name", " ", "FROM", " ", "sqlite_master", " ",
    UserTableFilter, " ", "ORDER BY name">>

\* the names GetTables takes from the rows q: the "name" entries that are
\* strings
TableNames(q) ==
  LET named == SelectSeq(q.results,
                         LAMBDA row : "name" \in DOMAIN row /\ row["name"].t = "text")
  IN [err |-> q.err, st |-> q.st, ops |-> q.ops,
      tables |-> IF q.err # <<>> THEN <<>>
                 ELSE [i \in 1..Len(named) |-> named[i]["name"].v]]

\* DB.GetTables
GetTables(c, st) == TableNames(Query(c, st, GetTablesQuery, <<>>))

\* DB.GetTableSchema: the name is put into the PRAGMA text as it is
GetTableSchema(c, st, tableName) ==
  Query(c, st, <<"PRAGMA", " ", "table_info", "(">> \o tableName \o <<")">>, <<>>)


\* ------------------------------------------------------------------------
\* encoding/json and the mcp result constructors
\* ------------------------------------------------------------------------
\* json has no encoding of an infinite or NaN float
Unsupported(v) == v.t = "real" /\ v.v \in {"+Inf", "-Inf", "NaN"}

\* a nil slice is encoded as null, any other as an array
JsonOf(items) ==
  IF items = <<>> THEN [kind |-> "null", items |-> <<>>]
  ELSE [kind |-> "array", items |-> items]

\* json.MarshalIndent of the rows Query returned
MarshalRows(results) ==
  IF \E i \in 1..Len(results) : \E n \in DOMAIN results[i] : Unsupported(results[i][n])
  THEN [err |-> <<"json: unsupported value">>, json |-> JsonOf(<<>>)]
  ELSE [err |-> <<>>, json |-> JsonOf(results)]

\* json.MarshalIndent of a list of strings
MarshalStrings(names) == [err |-> <<>>, json |-> JsonOf(names)]

\* json.MarshalIndent of {table_name, columns}
MarshalTableInfo(tableName, schema) ==
  [err |-> <<>>,
   json |-> [kind |-> "object", table_name |-> tableName, columns |-> JsonOf(schema)]]

NilResult == [nil |-> TRUE, isError |-> FALSE, text |-> <<>>]

\* mcp.NewToolResultText
NewToolResultText(text) == [nil |-> FALSE, isError |-> FALSE, text |-> text]

\* mcp.NewToolResultError
NewToolResultError(text) == [nil |-> FALSE, isError |-> TRUE, text |-> text]

\* mcp.NewToolResultErrorFromErr: "<text>: <err>"
NewToolResultErrorFromErr(text, err) ==
  [nil |-> FALSE, isError |-> TRUE, text |-> text \o <<": ">> \o err]

\* what a handler hands back: the (result, error) pair, the database after
\* the call and the wrapper operations it issued
Handled(result, err, st, ops) ==
  [result |-> result, err |-> err, st |-> st, ops |-> ops]

\* arguments are typed JSON values
Str(text) == [ty |-> "string", v |-> text]
Arr(items) == [ty |-> "array", v |-> items]
Num(n) == [ty |-> "number", v |-> n]

\* mcp.ParseString
ParseString(args, key, default) ==
  IF key \in DOMAIN args /\ args[key].ty = "string" THEN args[key].v ELSE default

\* ParseParameters handing the array on last element first
ParseParameters_Reversed(args) ==
  IF "parameters" \in DOMAIN args /\ args["parameters"].ty = "array"
  THEN [i \in 1..Len(args["parameters"].v) |->
          args["parameters"].v[Len(args["parameters"].v) + 1 - i]]
  ELSE <<>>

\* the parameters argument when it is an array, nothing otherwise
ParseParameters(args) ==
  IF "parameters" \in DOMAIN args /\ args["parameters"].ty = "array"
  THEN args["parameters"].v ELSE <<>>

\* ------------------------------------------------------------------------
\* internal/tools: the tool dispatcher
\* ------------------------------------------------------------------------
GetTools == <<"execute_query", "execute_statement", "list_tables", "describe_table">>

\* handleExecuteQuery once Query has answered q
queryResult(q) ==
  LET m == MarshalRows(q.results)
  IN IF q.err # <<>>
     THEN Handled(NewToolResultErrorFromErr(<<"Query execution failed">>, q.err),
                  <<>>, q.st, q.ops)
     ELSE IF m.err # <<>>
     THEN Handled(NewToolResultErrorFromErr(<<"Failed to format results">>, m.err),
                  <<>>, q.st, q.ops)
     ELSE Handled(NewToolResultText(<<"Query executed successfully. Results:", m.json>>),
                  <<>>, q.st, q.ops)

\* handleExecuteQuery without the SELECT check
handleExecuteQuery_Unchecked(c, st, args) ==
  IF ParseString(args, "query", <<>>) = <<>>
  THEN Handled(NewToolResultError(<<"query parameter is required">>), <<>>, st, <<>>)
  ELSE queryResult(Query(c, st, ParseString(args, "query", <<>>), ParseParameters(args)))

\* handleExecuteQuery making the SELECT check before the test for an empty
\* query
handleExecuteQuery_PrefixFirst(c, st, args) ==
  IF ~HasPrefix(TrimSpace(ToUpper(Explode(ParseString(args, "query", <<>>)))), SELECT)
  THEN Handled(NewToolResultError(<<"only SELECT queries are allowed with execute_query">>),
               <<>>, st, <<>>)
  ELSE IF ParseString(args, "query", <<>>) = <<>>
  THEN Handled(NewToolResultError(<<"query parameter is required">>), <<>>, st, <<>>)
  ELSE queryResult(Query(c, st, ParseString(args, "query", <<>>), ParseParameters(args)))

handleExecuteQuery(c, st, args) ==
  IF ParseString(args, "query", <<>>) = <<>>
  THEN Handled(NewToolResultError(<<"query parameter is required">>), <<>>, st, <<>>)
  ELSE IF ~HasPrefix(TrimSpace(ToUpper(Explode(ParseString(args, "query", <<>>)))), SELECT)
  THEN Handled(NewToolResultError(<<"only SELECT queries are allowed with execute_query">>),
               <<>>, st, <<>>)
  ELSE queryResult(Query(c, st, ParseString(args, "query", <<>>), ParseParameters(args)))

\* handleExecuteStatement once Execute has answered e
statementResult(e) ==
  IF e.err # <<>>
  THEN Handled(NewToolResultErrorFromErr(<<"Statement execution failed">>, e.err),
               <<>>, e.st, e.ops)
  ELSE Handled(NewToolResultText(<<"Statement executed successfully. Rows affected:",
                                   e.rowsAffected>>),
               <<>>, e.st, e.ops)

\* handleExecuteStatement without the SELECT check
handleExecuteStatement_Unchecked(c, st, args) ==
  IF ParseString(args, "statement", <<>>) = <<>>
  THEN Handled(NewToolResultError(<<"statement parameter is required">>), <<>>, st, <<>>)
  ELSE statementResult(Execute(c, st, ParseString(args, "statement", <<>>),
                               ParseParameters(args)))

\* handleExecuteStatement making its SELECT check on the text as sent, not
\* trimmed
handleExecuteStatement_Untrimmed(c, st, args) ==
  IF ParseString(args, "statement", <<>>) = <<>>
  THEN Handled(NewToolResultError(<<"statement parameter is required">>), <<>>, st, <<>>)
  ELSE IF HasPrefix(ToUpper(Explode(ParseString(args, "statement", <<>>))), SELECT)
  THEN Handled(NewToolResultError(<<"SELECT queries should use execute_query tool">>),
               <<>>, st, <<>>)
  ELSE statementResult(Execute(c, st, ParseString(args, "statement", <<>>),
                               ParseParameters(args)))

handleExecuteStatement(c, st, args) ==
  IF ParseString(args, "statement", <<>>) = <<>>
  THEN Handled(NewToolResultError(<<"statement parameter is required">>), <<>>, st, <<>>)
  ELSE IF HasPrefix(TrimSpace(ToUpper(Explode(ParseString(args, "statement", <<>>)))), SELECT)
  THEN Handled(NewToolResultError(<<"SELECT queries should use execute_query tool">>),
               <<>>, st, <<>>)
  ELSE statementResult(Execute(c, st, ParseString(args, "statement", <<>>),
                               ParseParameters(args)))

\* tablesResult reporting an empty list as an error
tablesResult_EmptyIsError(g) ==
  LET m == MarshalStrings(g.tables)
  IN IF g.err # <<>>
     THEN Handled(NewToolResultErrorFromErr(<<"Failed to list tables">>, g.err),
                  <<>>, g.st, g.ops)
     ELSE IF Len(g.tables) = 0
     THEN Handled(NewToolResultError(<<"No tables found in the database">>), <<>>, g.st, g.ops)
     ELSE Handled(NewToolResultText(<<"Tables in database:", m.json>>), <<>>, g.st, g.ops)

\* handleListTables once GetTables has answered g
tablesResult(g) ==
  LET m == MarshalStrings(g.tables)
  IN IF g.err # <<>>
     THEN Handled(NewToolResultErrorFromErr(<<"Failed to list tables">>, g.err),
                  <<>>, g.st, g.ops)
     ELSE IF Len(g.tables) = 0
     THEN Handled(NewToolResultText(<<"No tables found in the database">>), <<>>, g.st, g.ops)
     ELSE IF m.err # <<>>
     THEN Handled(NewToolResultErrorFromErr(<<"Failed to format table list">>, m.err),
                  <<>>, g.st, g.ops)
     ELSE Handled(NewToolResultText(<<"Tables in database:", m.json>>), <<>>, g.st, g.ops)

handleListTables(c, st) == tablesResult(GetTables(c, st))

\* schemaResult without the test for an empty schema
schemaResult_EmptyAccepted(tableName, q) ==
  LET m == MarshalRows(q.results)
  IN IF q.err # <<>>
     THEN Handled(NewToolResultErrorFromErr(<<"Failed to describe table", tableName>>, q.err),
                  <<>>, q.st, q.ops)
     ELSE Handled(NewToolResultText(<<"Schema for table", tableName, m.json>>),
                  <<>>, q.st, q.ops)

\* handleDescribeTable once GetTableSchema has answered q
schemaResult(tableName, q) ==
  LET m == MarshalRows(q.results)
  IN IF q.err # <<>>
     THEN Handled(NewToolResultErrorFromErr(<<"Failed to describe table", tableName>>, q.err),
                  <<>>, q.st, q.ops)
     ELSE IF Len(q.results) = 0
     THEN Handled(NewToolResultError(<<"Table not found", tableName>>), <<>>, q.st, q.ops)
     ELSE IF m.err # <<>>
     THEN Handled(NewToolResultErrorFromErr(<<"Failed to format schema">>, m.err),
                  <<>>, q.st, q.ops)
     ELSE Handled(NewToolResultText(<<"Schema for table", tableName, m.json>>),
                  <<>>, q.st, q.ops)

handleDescribeTable(c, st, args) ==
  IF ParseString(args, "table_name", <<>>) = <<>>
  THEN Handled(NewToolResultError(<<"table_name parameter is required">>), <<>>, st, <<>>)
  ELSE schemaResult(ParseString(args, "table_name", <<>>),
                    GetTableSchema(c, st, ParseString(args, "table_name", <<>>)))

\* HandleTool answering an unknown tool name with the table list
HandleTool_UnknownLists(c, st, name, args) ==
  CASE name = "execute_query" -> handleExecuteQuery(c, st, args)
    [] name = "execute_statement" -> handleExecuteStatement(c, st, args)
    [] name = "describe_table" -> handleDescribeTable(c, st, args)
    [] OTHER -> handleListTables(c, st)

\* HandleTool failing hard on an unknown tool name
HandleTool_UnknownFails(c, st, name, args) ==
  CASE name = "execute_query" -> handleExecuteQuery(c, st, args)
    [] name = "execute_statement" -> handleExecuteStatement(c, st, args)
    [] name = "list_tables" -> handleListTables(c, st)
    [] name = "describe_table" -> handleDescribeTable(c, st, args)
    [] OTHER -> Handled(NilResult, <<"unknown tool:", name>>, st, <<>>)

\* QueryTools.HandleTool
HandleTool(c, st, name, args) ==
  CASE name = "execute_query" -> handleExecuteQuery(c, st, args)
    [] name = "execute_statement" -> handleExecuteStatement(c, st, args)
    [] name = "list_tables" -> handleListTables(c, st)
    [] name = "describe_table" -> handleDescribeTable(c, st, args)
    [] OTHER -> Handled(NewToolResultError(<<"Unknown tool:", name>>), <<>>, st, <<>>)

\* ------------------------------------------------------------------------
\* internal/resources: the resource dispatcher; a URI is the sequence of its
\* parts, "schema://table/" followed by the table name being one of them
\* ------------------------------------------------------------------------
NilContents == <<>>

Read(contents, err, st, ops) ==
  [contents |-> contents, err |-> err, st |-> st, ops |-> ops]

TextResourceContents(uri, mimeType, text) ==
  [uri |-> uri, mimeType |-> mimeType, text |-> text]

\* handleTablesList once GetTables has answered g
tablesContents(g) ==
  LET m == MarshalStrings(g.tables)
  IN IF g.err # <<>>
     THEN Read(NilContents, <<"failed to get tables">> \o g.err, g.st, g.ops)
     ELSE IF m.err # <<>>
     THEN Read(NilContents, <<"failed to marshal tables">> \o m.err, g.st, g.ops)
     ELSE Read(<<TextResourceContents(<<"schema://tables">>, "application/json", m.json)>>,
               <<>>, g.st, g.ops)

handleTablesList(c, st) == tablesContents(GetTables(c, st))

\* handleTableSchema once GetTableSchema has answered q
schemaContents(tableName, q) ==
  LET m == MarshalTableInfo(tableName, q.results)
  IN IF q.err # <<>>
     THEN Read(NilContents, <<"failed to get table schema for", tableName>> \o q.err,
               q.st, q.ops)
     ELSE IF Len(q.results) = 0
     THEN Read(NilContents, <<"table not found", tableName>>, q.st, q.ops)
     ELSE IF m.err # <<>>
     THEN Read(NilContents, <<"failed to marshal table schema">> \o m.err, q.st, q.ops)
     ELSE Read(<<TextResourceContents(<<"schema://table/">> \o tableName,
                                      "application/json", m.json)>>,
               <<>>, q.st, q.ops)

handleTableSchema(c, st, tableName) ==
  IF tableName = <<>>
  THEN Read(NilContents, <<"table name is required">>, st, <<>>)
  ELSE schemaContents(tableName, GetTableSchema(c, st, tableName))

\* HandleResource answering every unmatched URI with the table list
HandleResource_ListByDefault(c, st, uri) ==
  IF HasPrefix(uri, <<"schema://table/">>)
  THEN handleTableSchema(c, st, Tail(uri))
  ELSE handleTablesList(c, st)

\* SchemaResources.HandleResource
HandleResource(c, st, uri) ==
  IF uri = <<"schema://tables">> THEN handleTablesList(c, st)
  ELSE IF HasPrefix(uri, <<"schema://table/">>)
  THEN handleTableSchema(c, st, Tail(uri))
  ELSE Read(NilContents, <<"unknown resource URI:", uri>>, st, <<>>)


\* ------------------------------------------------------------------------
\* Inputs
\* ------------------------------------------------------------------------
SelectUsers == <<"SELECT", " ", "*", " ", "FROM", " ", "users", " ", "ORDER BY id">>
SelectCount == <<"SELECT", " ", "COUNT(*)", " ", "FROM", " ", "users">>
SelectTwice ==
  <<"select", " ", "id", ",", " ", "name", " ", "AS", " ", "id", " ", "FROM", " ", "users">>
SelectBlob == <<"\n", " ", "Select", " ", "x'4142'", " ">>
SelectInf == <<"SELECT", " ", "9e999">>
SelectThenDelete ==
  <<"SELECT", " ", "1", ";", " ", "DELETE", " ", "FROM", " ", "users">>
SelectThenCreate ==
  <<"SELECT", " ", "1", ";", " ", "CREATE", " ", "TABLE", " ", "notes", " ",
    "(", "id", " ", "INTEGER", ")">>
SelectNoTable == <<"SELECT", " ", "*", " ", "FROM", " ", "nosuchtable">>
Selected == <<"SELECTED", " ", "1">>
Sel == <<"SEL">>
InsertParams ==
  <<"INSERT", " ", "INTO", " ", "users", " ", "(", "name", ",", " ", "email", ",",
    " ", "age", ")", " ", "VALUES", " ", "(", "?", ",", " ", "?", ",", " ", "?", ")">>
InsertDave ==
  <<" ", "insert", " ", "INTO", " ", "users", " ", "(", "name", ",", " ", "email", ")",
    " ", "VALUES", " ", "(", "'Dave'", ",", " ", "'d@x.com'", ")">>
InsertNull ==
  <<"INSERT", " ", "INTO", " ", "users", " ", "(", "name", ")", " ",
    "VALUES", " ", "(", "NULL", ")">>
DeleteUsers == <<"DELETE", " ", "FROM", " ", "users">>
CreateNotes ==
  <<"CREATE", " ", "TABLE", " ", "notes", " ", "(", "id", " ", "INTEGER", ")">>
Blank == <<" ", " ">>
DeleteThenDrop ==
  <<"DELETE", " ", "FROM", " ", "users", ";", " ", "DROP", " ", "TABLE", " ",
    "nosuchtable">>

SelectParams ==
  <<"SELECT", " ", "?", " ", "AS", " ", "a", ",", " ", "?", " ", "AS", " ", "b">>

Charlie == <<"Charlie", "c@x.com", "35">>

\* SQL texts with the parameters sent along
SqlInputs ==
  << <<SelectUsers, <<>> >>, <<SelectCount, <<>> >>, <<SelectTwice, <<>> >>,
     <<SelectBlob, <<>> >>, <<SelectInf, <<>> >>, <<SelectThenDelete, <<>> >>,
     <<SelectThenCreate, <<>> >>, <<SelectNoTable, <<>> >>, <<Selected, <<>> >>,
     <<Sel, <<>> >>, <<InsertParams, Charlie>>, <<InsertParams, <<>> >>,
     <<InsertDave, <<>> >>, <<InsertNull, <<>> >>, <<DeleteUsers, <<>> >>,
     <<CreateNotes, <<>> >>, <<Blank, <<>> >>, <<DeleteThenDrop, <<>> >>,
     <<SelectParams, <<"x", "y">> >> >>

\* the texts handed to DB.Query and DB.Execute directly (positions in SqlInputs)
DirectInputs == {1, 6, 7, 8, 11, 13, 16, 18}

\* table names: plain identifiers, and text that is no identifier
PlainNames == << <<"users">>, <<"nosuchtable">>, <<"notes">> >>

NameThenDelete ==
  <<"users", ")", ";", " ", "DELETE", " ", "FROM", " ", "users", ";", " ", "--">>

TableNameInputs ==
  PlainNames \o << <<"no", " ", "such">>, NameThenDelete, <<"my", " ", "table">>,
                   <<"sqlitedata">> >>

IsPlainName(n) == \E i \in 1..Len(PlainNames) : PlainNames[i] = n

SqlArgs(key, i) ==
  IF SqlInputs[i][2] = <<>>
  THEN [k \in {key} |-> Str(SqlInputs[i][1])]
  ELSE [k \in {key, "parameters"} |->
          IF k = key THEN Str(SqlInputs[i][1]) ELSE Arr(SqlInputs[i][2])]

NoArgs == << >>

\* argument mappings sent with a tool call
ArgInputs(name) ==
  CASE name = "execute_query" ->
         [i \in 1..Len(SqlInputs) |-> SqlArgs("query", i)]
           \o <<NoArgs, [k \in {"query"} |-> Num(5)],
                [k \in {"query"} |-> Str(<<>>)]>>
    [] name = "execute_statement" ->
         [i \in 1..Len(SqlInputs) |-> SqlArgs("statement", i)]
           \o <<NoArgs, [k \in {"statement"} |-> Str(<<>>)]>>
    [] name = "describe_table" ->
         [i \in 1..Len(TableNameInputs) |->
            [k \in {"table_name"} |-> Str(TableNameInputs[i])]]
           \o <<NoArgs>>
    [] OTHER -> <<NoArgs>>

ToolNames ==
  {"execute_query", "execute_statement", "list_tables", "describe_table",
   "unknown_tool", "EXECUTE_QUERY", ""}

UriInputs ==
  << <<"schema://tables">>, <<"schema://table/">>, <<"schema://bogus">>,
     <<"unknown://resource">>, <<"schema://tables", "/">>, <<"schema://table">> >>
    \o [i \in 1..Len(TableNameInputs) |-> <<"schema://table/">> \o TableNameInputs[i]]

Paths == {InMemoryDB, ExistingFile, BelowFile, "/non/existent/path.db"}

\* what the database file may hold at the start
\* a database whose tables were created as "my table" and sqlitedata
OddDB ==
  [n \in {"my table", "sqlitedata"} |->
     [cols |-> <<Col("id", "INTEGER", 0, 0, FALSE)>>, rows |-> <<>>]]

InitialDBs == {FixtureDB, EmptyDB, OddDB}

\* ------------------------------------------------------------------------
\* State
\* ------------------------------------------------------------------------
VARIABLES
  pc,      \* "boot", "serving", "fatal": the server process; "unit": the
           \* packages used directly, as their tests do
  cfg,     \* [dbPath, readWrite]: the -db and -read-write flags
  conn,    \* the connection of the DB value: [state, ro]
  tools,   \* names of the tools registered with the MCP server
  store,   \* contents of the database (of the file before it is opened)
  store0,  \* contents of the database when the connection was opened
  last,    \* the last call made and what it returned
  flight,  \* the requests being handled at the same time, and the database
           \* of the second pooled connection
  proc     \* the server process: its environment and command line, where
           \* main is, the context, the transport

vars == <<pc, cfg, conn, tools, store, store0, last, flight, proc>>

NoCall ==
  [kind |-> "none", name |-> "", args |-> NoArgs, uri |-> <<>>,
   dispatched |-> FALSE, result |-> NilResult, err |-> <<>>,
   contents |-> NilContents, rows |-> <<>>, affected |-> 0, ops |-> <<>>,
   before |-> EmptyDB, conn |-> NoConn]

\* a request that has not arrived: phase is "idle", "run" or "done"; req is
\* the request, h the pooled connection it runs on, k the statement the
\* driver runs next, r and affected what the driver has gathered so far
Idle ==
  [phase |-> "idle", req |-> 0, h |-> 0, k |-> 0, r |-> NoRows, affected |-> 0,
   err |-> "", reply |-> [result |-> NilResult, err |-> <<>>, contents |-> NilContents]]

NoFlight == [calls |-> <<Idle, Idle>>, second |-> EmptyDB]

\* an argument or environment variable that was not given
Unset == <<>>

\* a process started with no arguments in an empty environment, main not
\* yet at runServer
NoProc ==
  [env |-> [MCP_PORT |-> Unset, MCP_TRANSPORT |-> Unset],
   argv |-> [db |-> Unset, addr |-> Unset, transport |-> Unset,
             readWrite |-> FALSE, help |-> FALSE],
   at |-> "main", ctx |-> "live", started |-> FALSE, listening |-> FALSE,
   errChan |-> <<>>]

\* no table grows beyond the bound
WithinBounds(st) == \A n \in Tables(st) : Len(st[n].rows) <= MaxRows

\* ------------------------------------------------------------------------
\* cmd/server
\* ------------------------------------------------------------------------
\* registerToolsAndResources adding every tool in either mode
registerToolsAndResources_All(readWrite) ==
  {GetTools[i] : i \in 1..Len(GetTools)}

\* registerToolsAndResources: the tools added to the MCP server
registerToolsAndResources(readWrite) ==
  {GetTools[i] : i \in {j \in 1..Len(GetTools) :
                          ~(~readWrite /\ GetTools[j] = "execute_statement")}}

Init ==
  /\ pc = "boot"
  /\ cfg \in [dbPath : Paths, readWrite : BOOLEAN]
  /\ conn = NoConn
  /\ tools = {}
  /\ store \in InitialDBs
  /\ store0 = EmptyDB
  /\ last = NoCall
  /\ flight = NoFlight
  /\ proc = NoProc

\* main up to runServer: initializeDatabase, registerToolsAndResources
Start ==
  /\ pc = "boot"
  /\ LET n == New(cfg.dbPath, ~cfg.readWrite, store)
     IN IF (cfg.dbPath # InMemoryDB /\ IsNotExist(Stat(cfg.dbPath))) \/ n.err # ""
        THEN /\ pc' = "fatal"
             /\ UNCHANGED <<conn, tools, store, store0>>
        ELSE /\ pc' = "serving"
             /\ conn' = n.conn
             /\ store' = n.st
             /\ store0' = n.st
             /\ tools' = registerToolsAndResources(cfg.readWrite)
  /\ last' = [NoCall EXCEPT !.kind = "start"]
  /\ UNCHANGED <<cfg, flight, proc>>

\* the call is recorded and the database is what the handler left
ToolReturned(name, args, h) ==
  /\ WithinBounds(h.st)
  /\ store' = h.st
  /\ conn' = Session(conn, store, h.ops)
  /\ last' = [NoCall EXCEPT !.kind = "tool", !.name = name, !.args = args,
                            !.dispatched = TRUE, !.result = h.result,
                            !.err = h.err, !.ops = h.ops,
                            !.before = store, !.conn = conn]

ResourceReturned(uri, r) ==
  /\ WithinBounds(r.st)
  /\ store' = r.st
  /\ conn' = Session(conn, store, r.ops)
  /\ last' = [NoCall EXCEPT !.kind = "resource", !.uri = uri,
                            !.dispatched = TRUE, !.contents = r.contents,
                            !.err = r.err, !.ops = r.ops,
                            !.before = store, !.conn = conn]

\* a tools/call request: the MCP server hands it to HandleTool when the tool
\* is registered, and answers it itself otherwise
ToolRequest(name, args) ==
  IF name \in tools
  THEN ToolReturned(name, args, HandleTool(conn, store, name, args))
  ELSE /\ store' = store
       /\ conn' = conn
       /\ last' = [NoCall EXCEPT !.kind = "tool", !.name = name, !.args = args,
                                 !.before = store, !.conn = conn]

ToolCall ==
  /\ pc = "serving"
  /\ \E name \in ToolNames : \E i \in 1..Len(ArgInputs(name)) :
       ToolRequest(name, ArgInputs(name)[i])
  /\ UNCHANGED <<pc, cfg, tools, store0, flight, proc>>

\* a resources/read request
ResourceRead ==
  /\ pc = "serving"
  /\ \E i \in 1..Len(UriInputs) :
       ResourceReturned(UriInputs[i], HandleResource(conn, store, UriInputs[i]))
  /\ UNCHANGED <<pc, cfg, tools, store0, flight, proc>>

Next == Start \/ ToolCall \/ ResourceRead

Spec == Init /\ [][Next]_vars

\* ------------------------------------------------------------------------
\* The packages used directly (database.New, DB.Query, DB.Execute, DB.Close,
\* QueryTools.HandleTool, SchemaResources.HandleResource)
\* ------------------------------------------------------------------------
InitUnit ==
  /\ pc = "unit"
  /\ cfg \in [dbPath : Paths, readWrite : BOOLEAN]
  /\ conn = NoConn
  /\ tools = {}
  /\ store \in InitialDBs
  /\ store0 = EmptyDB
  /\ last = NoCall
  /\ flight = NoFlight
  /\ proc = NoProc

Open ==
  /\ pc = "unit"
  /\ conn.state = "none"
  /\ last.kind = "none"
  /\ LET n == New(cfg.dbPath, ~cfg.readWrite, store)
     IN /\ conn' = n.conn
        /\ store' = n.st
        /\ store0' = n.st
        /\ last' = [NoCall EXCEPT !.kind = "open", !.before = store,
                                  !.err = IF n.err = "" THEN <<>> ELSE <<n.err>>,
                                  !.ops = IF n.opened
                                          THEN <<Op("open", <<cfg.dbPath>>, <<>>)>>
                                          ELSE <<>>]
  /\ UNCHANGED <<pc, cfg, tools, flight, proc>>

ToolInvoked(name, args) ==
  ToolReturned(name, args, HandleTool(conn, store, name, args))

CallHandleTool ==
  /\ pc = "unit"
  /\ conn.state # "none"
  /\ \E name \in ToolNames : \E i \in 1..Len(ArgInputs(name)) :
       ToolInvoked(name, ArgInputs(name)[i])
  /\ UNCHANGED <<pc, cfg, tools, store0, flight, proc>>

CallHandleResource ==
  /\ pc = "unit"
  /\ conn.state # "none"
  /\ \E i \in 1..Len(UriInputs) :
       ResourceReturned(UriInputs[i], HandleResource(conn, store, UriInputs[i]))
  /\ UNCHANGED <<pc, cfg, tools, store0, flight, proc>>

QueryReturned(i, q) ==
  /\ WithinBounds(q.st)
  /\ store' = q.st
  /\ conn' = Session(conn, store, q.ops)
  /\ last' = [NoCall EXCEPT !.kind = "query", !.args = SqlArgs("query", i),
                            !.rows = q.results, !.err = q.err,
                            !.ops = q.ops, !.before = store, !.conn = conn]

CallQuery ==
  /\ pc = "unit"
  /\ conn.state # "none"
  /\ \E i \in DirectInputs :
       QueryReturned(i, Query(conn, store, SqlInputs[i][1], SqlInputs[i][2]))
  /\ UNCHANGED <<pc, cfg, tools, store0, flight, proc>>

ExecuteReturned(i, e) ==
  /\ WithinBounds(e.st)
  /\ store' = e.st
  /\ conn' = Session(conn, store, e.ops)
  /\ last' = [NoCall EXCEPT !.kind = "execute", !.args = SqlArgs("statement", i),
                            !.affected = e.rowsAffected, !.err = e.err,
                            !.ops = e.ops, !.before = store, !.conn = conn]

CallExecute ==
  /\ pc = "unit"
  /\ conn.state # "none"
  /\ \E i \in DirectInputs :
       ExecuteReturned(i, Execute(conn, store, SqlInputs[i][1], SqlInputs[i][2]))
  /\ UNCHANGED <<pc, cfg, tools, store0, flight, proc>>

\* sql.DB.Close failing on a pool that is closed already
connClose_Once(c) ==
  IF c.state = "closed" THEN [conn |-> c, err |-> <<ClosedMsg>>]
  ELSE [conn |-> [c EXCEPT !.state = "closed", !.tx = <<>>], err |-> <<>>]

\* db.conn.Close(): sql.DB.Close returns nil at once when the pool is closed;
\* a transaction left open is gone with the connection
connClose(c) ==
  IF c.state = "closed" THEN [conn |-> c, err |-> <<>>]
  ELSE [conn |-> [c EXCEPT !.state = "closed", !.tx = <<>>], err |-> <<>>]

\* DB.Close
Close ==
  /\ pc = "unit"
  /\ conn.state # "none"
  /\ conn' = connClose(conn).conn
  /\ store' = IF conn.tx # <<>> THEN conn.tx[1] ELSE store
  /\ last' = [NoCall EXCEPT !.kind = "close", !.before = store, !.conn = conn,
                            !.err = connClose(conn).err]
  /\ UNCHANGED <<pc, cfg, tools, store0, flight, proc>>

NextUnit ==
  Open \/ CallHandleTool \/ CallHandleResource \/ CallQuery \/ CallExecute \/ Close

SpecUnit == InitUnit /\ [][NextUnit]_vars

\* ------------------------------------------------------------------------
\* Calls that follow one another on the pooled connection, transaction
\* control among them
\* ------------------------------------------------------------------------
Begin == <<"BEGIN">>
Commit == <<"COMMIT">>
Rollback == <<"ROLLBACK">>

StatementCall(text) ==
  [name |-> "execute_statement", args |-> [k \in {"statement"} |-> Str(text)]]

SessionCalls ==
  << StatementCall(Begin), StatementCall(Commit), StatementCall(Rollback),
     StatementCall(InsertDave), StatementCall(DeleteUsers),
     [name |-> "execute_query", args |-> SqlArgs("query", 2)],
     [name |-> "list_tables", args |-> NoArgs] >>

SessionCall ==
  /\ pc = "unit"
  /\ conn.state # "none"
  /\ \E i \in 1..Len(SessionCalls) :
       ToolInvoked(SessionCalls[i].name, SessionCalls[i].args)
  /\ UNCHANGED <<pc, cfg, tools, store0, flight, proc>>

NextSession == Open \/ SessionCall \/ Close

SpecSession == InitUnit /\ [][NextSession]_vars

\* ------------------------------------------------------------------------
\* The server handling two requests at the same time: the HTTP transports
\* run every request on a goroutine of its own, and the handlers share the
\* one *sql.DB, a pool that hands a request a free connection or opens
\* another one. A statement is the unit the driver runs at once.
\* ------------------------------------------------------------------------
DeleteThenInsert == DeleteUsers \o <<";">> \o InsertDave

ToolRequestOf(name, args) ==
  [kind |-> "tool", name |-> name, args |-> args, uri |-> <<>>]

\* the requests two clients may send
ConcRequests ==
  << ToolRequestOf("execute_query", SqlArgs("query", 2)),
     ToolRequestOf("execute_statement", [k \in {"statement"} |-> Str(DeleteThenInsert)]),
     ToolRequestOf("execute_statement", SqlArgs("statement", 16)),
     ToolRequestOf("list_tables", NoArgs),
     [kind |-> "resource", name |-> "", args |-> NoArgs, uri |-> <<"schema://tables">>],
     ToolRequestOf("execute_query", NoArgs) >>

\* the handler registered for request q
Handle(c, st, q) ==
  IF q.kind = "tool" THEN HandleTool(c, st, q.name, q.args)
  ELSE HandleResource(c, st, q.uri)

\* what the client is sent of the handler's answer h
Reply(q, h) ==
  IF q.kind = "tool"
  THEN [result |-> h.result, err |-> h.err, contents |-> NilContents]
  ELSE [result |-> NilResult, err |-> h.err, contents |-> h.contents]

\* the handler of q from the point where the driver has answered o to the
\* wrapper operation op
Answer(q, op, o) ==
  CASE q.kind = "resource" /\ q.uri = <<"schema://tables">> ->
         tablesContents(TableNames(QueryResults(o, op.text, op.params)))
    [] q.kind = "resource" /\ q.uri # <<"schema://tables">> ->
         schemaContents(Tail(q.uri), QueryResults(o, op.text, op.params))
    [] q.kind = "tool" /\ q.name = "execute_query" ->
         queryResult(QueryResults(o, op.text, op.params))
    [] q.kind = "tool" /\ q.name = "execute_statement" ->
         statementResult(RowsAffected(o, op.text, op.params))
    [] q.kind = "tool" /\ q.name = "list_tables" ->
         tablesResult(TableNames(QueryResults(o, op.text, op.params)))
    [] OTHER ->
         schemaResult(ParseString(q.args, "table_name", <<>>),
                      QueryResults(o, op.text, op.params))

Running(p) == flight.calls[p].phase = "run"

\* the pool: the connection New pinged when no request holds it, a new one
\* otherwise
Acquire == IF \E p \in 1..2 : Running(p) THEN 2 ELSE 1

\* every connection of a file sees the file; a connection to :memory: has a
\* database of its own
Private(h) == cfg.dbPath = InMemoryDB /\ h = 2

DbOf(h) == IF Private(h) THEN flight.second ELSE store

\* the request of caller p, and the wrapper operation its handler issues
RequestOf(p) == ConcRequests[flight.calls[p].req]

IssuedBy(p) == Handle(conn, store, RequestOf(p)).ops[1]

StatementsOf(p) == Segments(IssuedBy(p).text)

\* request q of caller p has reached its handler, which issues ops
Received(p, i, q, ops, reply) ==
  flight' = [flight EXCEPT !.calls[p] =
               IF ops = <<>>
               THEN [Idle EXCEPT !.phase = "done", !.req = i, !.reply = reply]
               ELSE [Idle EXCEPT !.phase = "run", !.req = i, !.h = Acquire, !.k = 1]]

\* a request arrives: the handler runs up to its call of Query or Execute,
\* or to the end where it makes none
Receive ==
  /\ pc = "serving"
  /\ \E p \in 1..2 : \E i \in 1..Len(ConcRequests) :
       /\ flight.calls[p].phase = "idle"
       /\ ConcRequests[i].kind = "tool" => ConcRequests[i].name \in tools
       /\ Received(p, i, ConcRequests[i], Handle(conn, store, ConcRequests[i]).ops,
                   Reply(ConcRequests[i], Handle(conn, store, ConcRequests[i])))
  /\ UNCHANGED <<pc, cfg, conn, tools, store, store0, last, proc>>

\* statement k of caller p, prepared as ast, has run on connection h with
\* outcome o
StatementRan(p, h, segs, k, ast, o) ==
  /\ WithinBounds(o.st)
  /\ store' = IF o.err = "" /\ ~Private(h) THEN o.st ELSE store
  /\ flight' = IF o.err # ""
               THEN [flight EXCEPT !.calls[p].err = o.err]
               ELSE [flight EXCEPT
                       !.calls[p].k = k + 1,
                       !.calls[p].r = Kept(segs, k, @, ast.op, o),
                       !.calls[p].affected = IF ast.op = "empty" THEN @ ELSE o.affected,
                       !.second = IF Private(h) THEN o.st ELSE @]

\* the pool hands out no connection once it is closed; a text that has
\* begun keeps the connection it runs on
RunPrepared(p, h, segs, k, ast) ==
  StatementRan(p, h, segs, k, ast,
               IF k = 1 /\ conn.state # "open" THEN Failed(ClosedMsg, DbOf(h))
               ELSE ExecStmt(ast, DbOf(h), conn.ro, IssuedBy(p).params))

\* the driver runs the next statement of a text
RunStatement ==
  /\ pc = "serving"
  /\ \E p \in 1..2 :
       /\ Running(p)
       /\ flight.calls[p].err = ""
       /\ flight.calls[p].k <= Len(StatementsOf(p))
       /\ RunPrepared(p, flight.calls[p].h, StatementsOf(p), flight.calls[p].k,
                      ParseStmt(Words(StatementsOf(p)[flight.calls[p].k])))
  /\ UNCHANGED <<pc, cfg, conn, tools, store0, last, proc>>

\* what db.conn.Query or db.conn.Exec hands back at the end of the text or
\* at the first error
DriverAnswer(kind, c, st) ==
  IF c.err # "" THEN Failed(c.err, st)
  ELSE IF kind = "query" THEN Outcome("", st, c.r.cols, c.r.rows, 0)
  ELSE Outcome("", st, <<>>, <<>>, c.affected)

Returned(p, q, op, o) ==
  flight' = [flight EXCEPT !.calls[p].phase = "done",
                           !.calls[p].reply = Reply(q, Answer(q, op, o))]

\* the driver hands back, the handler formats its answer and returns
Return ==
  /\ pc = "serving"
  /\ \E p \in 1..2 :
       /\ Running(p)
       /\ flight.calls[p].err # "" \/ flight.calls[p].k > Len(StatementsOf(p))
       /\ Returned(p, RequestOf(p), IssuedBy(p),
                   DriverAnswer(IssuedBy(p).kind, flight.calls[p],
                                DbOf(flight.calls[p].h)))
  /\ UNCHANGED <<pc, cfg, conn, tools, store, store0, last, proc>>

NextConc == Start \/ Receive \/ RunStatement \/ Return

SpecConc == Init /\ [][NextConc]_vars

\* ------------------------------------------------------------------------
\* The server process from its command line to its exit (cmd/server/main.go)
\* ------------------------------------------------------------------------
Digit(c) ==
  CASE c = "0" -> 0 [] c = "1" -> 1 [] c = "2" -> 2 [] c = "3" -> 3
    [] c = "4" -> 4 [] c = "5" -> 5 [] c = "6" -> 6 [] c = "7" -> 7
    [] c = "8" -> 8 [] c = "9" -> 9 [] OTHER -> -1

RECURSIVE DigitsValue(_)
DigitsValue(s) ==
  IF s = <<>> THEN 0 ELSE 10 * DigitsValue(SubSeq(s, 1, Len(s) - 1)) + Digit(s[Len(s)])

\* strconv.Atoi: an optional sign and decimal digits
Atoi(s) ==
  LET body == IF s # <<>> /\ Head(s) \in {"+", "-"} THEN Tail(s) ELSE s
  IN IF body = <<>> \/ \E i \in 1..Len(body) : Digit(body[i]) = -1
     THEN [ok |-> FALSE, n |-> 0]
     ELSE [ok |-> TRUE,
           n |-> IF Head(s) = "-" THEN 0 - DigitsValue(body) ELSE DigitsValue(body)]

\* getDefaultAddress always answering ":8080"
getDefaultAddress_Fixed(envPort) == <<":", "8", "0", "8", "0">>

\* getDefaultAddress: ":" and MCP_PORT when it is a number from 0 to 65535,
\* ":8080" otherwise
getDefaultAddress(envPort) ==
  IF envPort # <<>> /\ Atoi(envPort).ok /\ Atoi(envPort).n >= 0
       /\ Atoi(envPort).n <= 65535
  THEN <<":">> \o envPort
  ELSE <<":", "8", "0", "8", "0">>

transportSSE == <<"s", "s", "e">>

transportStreamableHTTP ==
  <<"s", "t", "r", "e", "a", "m", "a", "b", "l", "e", "-", "h", "t", "t", "p">>

LowerChar(c) ==
  CASE c = "S" -> "s" [] c = "E" -> "e" [] c = "T" -> "t" [] c = "R" -> "r"
    [] c = "A" -> "a" [] c = "M" -> "m" [] c = "B" -> "b" [] c = "L" -> "l"
    [] c = "H" -> "h" [] c = "P" -> "p" [] OTHER -> c

ToLower(s) == [i \in 1..Len(s) |-> LowerChar(s[i])]

\* getDefaultTransport
getDefaultTransport(envTransport) ==
  IF envTransport = <<>> THEN transportStreamableHTTP
  ELSE IF ToLower(TrimSpace(envTransport)) \notin {transportSSE, transportStreamableHTTP}
  THEN transportStreamableHTTP
  ELSE ToLower(TrimSpace(envTransport))

\* the flag package: the value given on the command line, the default
\* otherwise
Flag(given, default) == IF given = Unset THEN default ELSE given

\* parseFlags
parseFlags(env, argv) ==
  [dbPath |-> argv.db,
   addr |-> Flag(argv.addr, getDefaultAddress(env.MCP_PORT)),
   readWrite |-> argv.readWrite,
   transport |-> Flag(argv.transport, getDefaultTransport(env.MCP_TRANSPORT)),
   help |-> argv.help]

\* the Config before parseFlags has filled it
NoConfig ==
  [dbPath |-> "", addr |-> <<>>, readWrite |-> FALSE, transport |-> <<>>,
   help |-> FALSE]

PortInputs ==
  {Unset, <<"9", "0", "0", "0">>, <<"7", "0", "0", "0", "0">>, <<"a", "b", "c">>,
   <<"-", "1">>}

TransportInputs == {Unset, <<" ", "S", "S", "E">>, <<"b", "o", "g", "u", "s">>}

Environments == [MCP_PORT : PortInputs, MCP_TRANSPORT : TransportInputs]

CommandLines ==
  [db : {InMemoryDB, ExistingFile, "/non/existent/path.db"},
   addr : {Unset, <<":", "8", "0", "8", "1">>},
   transport : {Unset, <<"S", "S", "E">>, <<"b", "o", "g", "u", "s">>},
   readWrite : BOOLEAN, help : BOOLEAN]

InitMain ==
  /\ pc = "args"
  /\ cfg = NoConfig
  /\ conn = NoConn
  /\ tools = {}
  /\ store = FixtureDB
  /\ store0 = EmptyDB
  /\ last = NoCall
  /\ flight = NoFlight
  /\ proc \in {[NoProc EXCEPT !.env = e, !.argv = a] :
                 e \in Environments, a \in CommandLines}

\* main: config := parseFlags()
ParseFlags ==
  /\ pc = "args"
  /\ cfg' = parseFlags(proc.env, proc.argv)
  /\ pc' = IF proc.argv.help THEN "help" ELSE "boot"
  /\ UNCHANGED <<conn, tools, store, store0, last, flight, proc>>

\* main: showHelp and return
ShowHelp ==
  /\ pc = "help"
  /\ pc' = "exited"
  /\ UNCHANGED <<cfg, conn, tools, store, store0, last, flight, proc>>

\* runServer: the switch on the transport name; log.Fatalf ends the process
\* at once, deferred calls are not run
RunServer ==
  /\ pc = "serving"
  /\ proc.at = "main"
  /\ IF ToLower(cfg.transport) \in {transportStreamableHTTP, transportSSE}
     THEN /\ proc' = [proc EXCEPT !.at = "waiting"]
          /\ pc' = pc
     ELSE /\ proc' = proc
          /\ pc' = "exited"
  /\ UNCHANGED <<cfg, conn, tools, store, store0, last, flight>>

\* the goroutine of runServer: transportServer.Start(addr) listens, or fails
\* and its error is sent on errChan
TransportStart ==
  /\ pc = "serving"
  /\ proc.at = "waiting"
  /\ ~proc.started
  /\ \E ok \in BOOLEAN :
       proc' = [proc EXCEPT !.started = TRUE, !.listening = ok,
                            !.errChan = IF ok THEN <<>> ELSE <<"listen failed">>]
  /\ UNCHANGED <<pc, cfg, conn, tools, store, store0, last, flight>>

\* setupContext: SIGINT or SIGTERM arrives and the goroutine cancels the
\* context
Signal ==
  /\ pc = "serving"
  /\ proc.ctx = "live"
  /\ proc' = [proc EXCEPT !.ctx = "cancelled"]
  /\ UNCHANGED <<pc, cfg, conn, tools, store, store0, last, flight>>

\* runServer, case err := <-errChan: log.Fatalf
ServerError ==
  /\ pc = "serving"
  /\ proc.at = "waiting"
  /\ proc.errChan # <<>>
  /\ pc' = "exited"
  /\ UNCHANGED <<cfg, conn, tools, store, store0, last, flight, proc>>

\* runServer, case <-ctx.Done(): transportServer.Shutdown(ctx) closes the
\* listener and, its context being cancelled already, returns without
\* waiting for the requests being handled
Shutdown ==
  /\ pc = "serving"
  /\ proc.at = "waiting"
  /\ proc.ctx = "cancelled"
  /\ proc' = [proc EXCEPT !.at = "returning", !.listening = FALSE]
  /\ UNCHANGED <<pc, cfg, conn, tools, store, store0, last, flight>>

\* main returns: the deferred closeDatabase(db)
CloseDatabase ==
  /\ pc = "serving"
  /\ proc.at = "returning"
  /\ conn' = connClose(conn).conn
  /\ store' = IF conn.tx # <<>> THEN conn.tx[1] ELSE store
  /\ proc' = [proc EXCEPT !.at = "closed"]
  /\ UNCHANGED <<pc, cfg, tools, store0, last, flight>>

\* the process ends
Exit ==
  /\ pc = "serving"
  /\ proc.at = "closed"
  /\ pc' = "exited"
  /\ UNCHANGED <<cfg, conn, tools, store, store0, last, flight, proc>>

\* the requests a client sends to the running server (positions in
\* ConcRequests)
MainRequests == {1, 4}

\* the transport accepts a request and its handler starts
Accept ==
  /\ pc = "serving"
  /\ proc.listening
  /\ flight.calls[1].phase = "idle"
  /\ \E i \in MainRequests :
       Received(1, i, ConcRequests[i], Handle(conn, store, ConcRequests[i]).ops,
                Reply(ConcRequests[i], Handle(conn, store, ConcRequests[i])))
  /\ UNCHANGED <<pc, cfg, conn, tools, store, store0, last, proc>>

NextMain ==
  \/ ParseFlags \/ ShowHelp \/ Start \/ RunServer \/ TransportStart \/ Signal
  \/ ServerError \/ Shutdown \/ CloseDatabase \/ Exit
  \/ Accept \/ RunStatement \/ Return

SpecMain == InitMain /\ [][NextMain]_vars


\* ------------------------------------------------------------------------
\* Properties
\* ------------------------------------------------------------------------
Msg(result) == result.text[1]

StartsWithSelect(text) == HasPrefix(TrimSpace(ToUpper(Explode(text))), SELECT)

LastTool(name) == last.kind = "tool" /\ last.dispatched /\ last.name = name

LastQueryArg == ParseString(last.args, "query", <<>>)
LastStatementArg == ParseString(last.args, "statement", <<>>)
LastTableArg == ParseString(last.args, "table_name", <<>>)

SoftError(msg) ==
  /\ last.err = <<>>
  /\ ~last.result.nil
  /\ last.result.isError
  /\ Msg(last.result) = msg

\* C1: execute_query on a non-empty text that does not start with SELECT
\* (after trimming and upper-casing) returns the soft error
\* "only SELECT queries are allowed with execute_query", issues no operation
\* to the database and leaves its contents as they were, in either mode.
C1_NonSelectRejected ==
  (LastTool("execute_query") /\ LastQueryArg # <<>> /\ ~StartsWithSelect(LastQueryArg))
    => /\ SoftError("only SELECT queries are allowed with execute_query")
       /\ last.ops = <<>>
       /\ store = last.before

C1_Witness ==
  /\ LastTool("execute_query")
  /\ LastQueryArg = InsertDave
  /\ last.conn.state = "open"
  /\ ~last.conn.ro
  /\ "users" \in Tables(store)
  /\ last.result.isError

\* C2: execute_statement on a non-empty text that starts with SELECT returns
\* the soft error "SELECT queries should use execute_query tool" and the text
\* never reaches the wrapper's Execute.
C2_SelectRejected ==
  (LastTool("execute_statement") /\ LastStatementArg # <<>>
     /\ StartsWithSelect(LastStatementArg))
    => /\ SoftError("SELECT queries should use execute_query tool")
       /\ \A i \in 1..Len(last.ops) : last.ops[i].kind # "exec"

C2_Witness ==
  /\ LastTool("execute_statement")
  /\ LastStatementArg = SelectThenDelete
  /\ last.conn.state = "open"
  /\ ~last.conn.ro
  /\ "users" \in Tables(store)
  /\ last.result.isError

\* C3: in read-only mode (no -read-write flag) the contents of the database
\* stay what they were at startup, whatever calls the server accepts, for a
\* file database and for the in-memory database.
C3_ReadOnlyServerKeepsDatabase ==
  (pc = "serving" /\ ~cfg.readWrite) => store = store0

\* texts that hold a mutating statement
MutatingTexts ==
  {SelectThenDelete, SelectThenCreate, InsertParams, InsertDave, InsertNull,
   DeleteUsers, CreateNotes}

\* C4: a connection opened with readOnly = true rejects every mutating
\* statement, through Query and through Execute, for every path New accepts.
C4_ReadOnlyConnectionRejectsWrites ==
  (last.kind \in {"query", "execute"} /\ ~cfg.readWrite /\ last.conn.state = "open")
    => /\ store = last.before
       /\ last.ops[1].text \in MutatingTexts => last.err # <<>>

\* C5: without -read-write exactly execute_query, list_tables and
\* describe_table are registered, with it all four tools; HandleTool is
\* reached for execute_statement only when writes are permitted.
C5_RegistrationFollowsMode ==
  /\ pc = "serving" =>
       tools = IF cfg.readWrite
               THEN {"execute_query", "execute_statement", "list_tables", "describe_table"}
               ELSE {"execute_query", "list_tables", "describe_table"}
  /\ (last.kind = "tool" /\ last.name = "execute_statement" /\ last.dispatched)
       => cfg.readWrite

C5_Witness ==
  /\ pc = "serving"
  /\ ~cfg.readWrite
  /\ last.kind = "tool"
  /\ last.name = "execute_statement"
  /\ ~last.dispatched

\* C6: HandleTool returns a non-nil result and a nil error for every tool
\* name, every argument mapping and every database state.
C6_NeverHardFailure ==
  last.kind = "tool" => (~last.result.nil /\ last.err = <<>>)

C6_Witness ==
  /\ LastTool("execute_query")
  /\ LastQueryArg = SelectNoTable
  /\ last.conn.state = "open"
  /\ last.result.isError
  /\ Msg(last.result) = "Query execution failed"


\* what the driver answers when the text of the last tool call is run
\* directly on the database as it was before the call
DirectQuery(text) ==
  ConnQuery(last.conn, last.before, text, ParseParameters(last.args))

DirectExec(text) ==
  ConnExec(last.conn, last.before, text, ParseParameters(last.args))

DescribeText == <<"PRAGMA", " ", "table_info", "(">> \o LastTableArg \o <<")">>

KnownTools == {"execute_query", "execute_statement", "list_tables", "describe_table"}

MissingArgument ==
  \/ last.name = "execute_query" /\ LastQueryArg = <<>>
  \/ last.name = "execute_statement" /\ LastStatementArg = <<>>
  \/ last.name = "describe_table" /\ LastTableArg = <<>>

WrongQueryType ==
  \/ last.name = "execute_query" /\ LastQueryArg # <<>>
       /\ ~StartsWithSelect(LastQueryArg)
  \/ last.name = "execute_statement" /\ LastStatementArg # <<>>
       /\ StartsWithSelect(LastStatementArg)

SqlFailure ==
  /\ ~MissingArgument
  /\ ~WrongQueryType
  /\ \/ last.name = "execute_query" /\ DirectQuery(LastQueryArg).err # ""
     \/ last.name = "execute_statement" /\ DirectExec(LastStatementArg).err # ""
     \/ last.name = "list_tables" /\ DirectQuery(GetTablesQuery).err # ""
     \/ last.name = "describe_table" /\ DirectQuery(DescribeText).err # ""

TableNotFound ==
  /\ last.name = "describe_table"
  /\ ~MissingArgument
  /\ DirectQuery(DescribeText).err = ""
  /\ DirectQuery(DescribeText).rows = <<>>

UnknownTool == last.name \notin KnownTools

\* the rows of an accepted SELECT hold a value JSON cannot encode
FormatFailure ==
  /\ last.name = "execute_query"
  /\ ~MissingArgument
  /\ ~WrongQueryType
  /\ DirectQuery(LastQueryArg).err = ""
  /\ \E i \in 1..Len(DirectQuery(LastQueryArg).rows) :
       \E j \in 1..Len(DirectQuery(LastQueryArg).rows[i]) :
         Unsupported(DirectQuery(LastQueryArg).rows[i][j])

ListedBusinessError ==
  MissingArgument \/ WrongQueryType \/ SqlFailure \/ TableNotFound \/ UnknownTool

EmptyListIsNoError ==
  (LastTool("list_tables") /\ last.conn.state = "open"
     /\ \A n \in Tables(last.before) : IsInternal(n))
    => (~last.result.isError /\ Msg(last.result) = "No tables found in the database")

EmptySelectIsNoError ==
  (LastTool("execute_query") /\ ~MissingArgument /\ ~WrongQueryType
     /\ DirectQuery(LastQueryArg).err = "" /\ DirectQuery(LastQueryArg).rows = <<>>)
    => ~last.result.isError

ReturnedRows == last.result.text[2].items

\* C8: whenever execute_query returns the rows of a SELECT text the database
\* accepts, they are the rows of the direct execution of that text: as many
\* rows, in the same order, and in each row every selected column with its
\* value (bytes as text), no column lost.
C8_QueryMatchesDirectExecution ==
  (LastTool("execute_query") /\ last.conn.state = "open" /\ LastQueryArg # <<>>
     /\ StartsWithSelect(LastQueryArg) /\ DirectQuery(LastQueryArg).err = ""
     /\ ~last.result.isError)
    => LET d == DirectQuery(LastQueryArg)
       IN /\ Len(ReturnedRows) = Len(d.rows)
          /\ \A i \in 1..Len(d.rows) :
               /\ Cardinality(DOMAIN ReturnedRows[i]) = Len(d.cols)
               /\ \A j \in 1..Len(d.cols) :
                    /\ d.cols[j] \in DOMAIN ReturnedRows[i]
                    /\ ReturnedRows[i][d.cols[j]] = Scanned(d.rows[i][j])

CountArgs == [k \in {"query"} |-> Str(SelectCount)]

\* the number execute_query reports for SELECT COUNT(*) FROM users
CountUsers(c, st) ==
  HandleTool(c, st, "execute_query", CountArgs).result.text[2].items[1]["COUNT(*)"].v

SingleRowInserts == {InsertParams, InsertDave, InsertNull}

\* C9: in read-write mode, after execute_statement ran a single-row INSERT
\* into users and reported "Rows affected: 1", execute_query counting the
\* rows of users returns one more than it returned before the INSERT.
C9_InsertThenCount ==
  (LastTool("execute_statement") /\ LastStatementArg \in SingleRowInserts
     /\ ~last.result.isError /\ last.result.text[2] = 1)
    => CountUsers(conn, store) = CountUsers(last.conn, last.before) + 1

C9_Witness ==
  /\ LastTool("execute_statement")
  /\ LastStatementArg = InsertParams
  /\ ParseParameters(last.args) = Charlie
  /\ ~last.result.isError
  /\ last.result.text[2] = 1
  /\ Len(last.before["users"].rows) = 2
  /\ CountUsers(conn, store) = 3

MissingTable(name) ==
  /\ IsPlainName(name)
  /\ name[1] \notin Tables(last.before)
  /\ last.conn.state = "open"

LastResource == last.kind = "resource" /\ last.dispatched

HardError(err) == last.err = err /\ last.contents = NilContents

\* the PRAGMA text GetTableSchema sends for the table named in the last URI
SchemaText == <<"PRAGMA", " ", "table_info", "(">> \o Tail(last.uri) \o <<")">>

\* C11: a resource read falls into exactly one case: schema://tables is the
\* table list; a URI with the prefix schema://table/ is a schema lookup,
\* which with nothing after the prefix fails with "table name is required";
\* every other URI fails with "unknown resource URI: <uri>". The two error
\* cases return no contents and send nothing to the database.
C11_UriClassification ==
  LastResource =>
    IF last.uri = <<"schema://tables">>
    THEN Len(last.ops) = 1 /\ last.ops[1].text = GetTablesQuery
    ELSE IF last.uri = <<"schema://table/">>
    THEN HardError(<<"table name is required">>) /\ last.ops = <<>>
    ELSE IF Head(last.uri) = "schema://table/"
    THEN Len(last.ops) = 1 /\ last.ops[1].text = SchemaText
    ELSE HardError(<<"unknown resource URI:", last.uri>>) /\ last.ops = <<>>

C11_Witness ==
  /\ LastResource
  /\ last.uri = <<"schema://tables", "/">>
  /\ last.conn.state = "open"
  /\ "users" \in Tables(last.before)
  /\ last.err = <<"unknown resource URI:", last.uri>>
  /\ store = last.before

\* C12: on an open connection, whatever the database holds, a read of
\* schema://tables succeeds with exactly one content item whose URI is
\* schema://tables, whose MIME type is application/json and whose text is a
\* JSON array of the table names, also when there is no user table.
C12_TablesListIsArray ==
  (LastResource /\ last.uri = <<"schema://tables">> /\ last.conn.state = "open")
    => /\ last.err = <<>>
       /\ Len(last.contents) = 1
       /\ last.contents[1].uri = <<"schema://tables">>
       /\ last.contents[1].mimeType = "application/json"
       /\ last.contents[1].text.kind = "array"
       /\ last.contents[1].text.items = GetTables(last.conn, last.before).tables

\* the string the parts of a name spell
RECURSIVE Join(_)
Join(parts) == IF parts = <<>> THEN "" ELSE Head(parts) \o Join(Tail(parts))

\* the descriptors PRAGMA table_info gives for the columns cols, as Query
\* returns them
Descriptors(cols) ==
  [i \in 1..Len(cols) |-> RowMap(TableInfoCols, TableInfoRow(cols, i))]

\* C13: for every table N of the database, a read of schema://table/N on an
\* open connection succeeds with exactly one content item whose URI is the
\* requested one and whose text is the JSON object with table_name = N and
\* columns = the column descriptors of N.
C13_ExistingTableSchema ==
  (LastResource /\ Head(last.uri) = "schema://table/" /\ last.conn.state = "open"
     /\ Join(Tail(last.uri)) \in Tables(last.before))
    => /\ last.err = <<>>
       /\ Len(last.contents) = 1
       /\ last.contents[1].uri = last.uri
       /\ last.contents[1].mimeType = "application/json"
       /\ last.contents[1].text.kind = "object"
       /\ last.contents[1].text.table_name = Tail(last.uri)
       /\ last.contents[1].text.columns.items
            = Descriptors(last.before[Join(Tail(last.uri))].cols)

\* C14: New on a path that is not the in-memory marker and names no existing
\* file fails with "database file does not exist", returns no connection and
\* never asks the driver for one; for the in-memory marker the existence
\* check is skipped and the connection is opened.
C14_MissingFileFailsBeforeDriver ==
  last.kind = "open" =>
    /\ (cfg.dbPath # InMemoryDB /\ ~FileExists(cfg.dbPath))
         => /\ last.err = <<"database file does not exist">>
            /\ conn = NoConn
            /\ last.ops = <<>>
    /\ cfg.dbPath = InMemoryDB => (last.err = <<>> /\ conn.state = "open")

\* C15: Close on a connection that is closed already returns no error and
\* changes nothing: the connection and the database are what one Close left.
C15_CloseIdempotent ==
  (last.kind = "close" /\ last.conn.state = "closed")
    => /\ last.err = <<>>
       /\ conn = last.conn
       /\ store = last.before

C15_Witness ==
  /\ last.kind = "close"
  /\ last.conn.state = "closed"
  /\ conn.state = "closed"
  /\ "users" \in Tables(store)

\* the names list_tables returned
ListedTables ==
  IF Msg(last.result) = "No tables found in the database" THEN <<>>
  ELSE last.result.text[2].items

\* C16: the names listed are exactly the tables of the database whose name
\* does not begin with "sqlite_", each once, in lexicographic order.
C16_ListsUserTables ==
  (LastTool("list_tables") /\ last.conn.state = "open")
    => /\ ~last.result.isError
       /\ ListedTables = SortByName({n \in Tables(last.before) : ~Reserved(n)})

\* the descriptors describe_table put into its result
DescribedColumns == last.result.text[3].items

\* C17: for a table of the database describe_table returns one descriptor
\* for each declared column, in the order of declaration, the pk entry set on
\* the primary-key column; for users (id PK, name, email, age) these are 4
\* descriptors, the first being id with pk = 1, the others with pk = 0.
C17_DescribeGivesColumns ==
  (LastTool("describe_table") /\ last.conn.state = "open"
     /\ Join(LastTableArg) \in Tables(last.before))
    => /\ ~last.result.isError
       /\ DescribedColumns = Descriptors(last.before[Join(LastTableArg)].cols)
       /\ LastTableArg = <<"users">>
            => /\ Len(DescribedColumns) = 4
               /\ [i \in 1..4 |-> DescribedColumns[i]["name"].v]
                    = <<"id", "name", "email", "age">>
               /\ [i \in 1..4 |-> DescribedColumns[i]["pk"].v] = <<1, 0, 0, 0>>

\* C18: a statement that execute_statement or Execute reports as failed has
\* left the database as it was before the call, and one reported as
\* successful has run its whole text.
C18_NoPartialSuccess ==
  /\ (LastTool("execute_statement") /\ last.result.isError) => store = last.before
  /\ (last.kind = "execute" /\ last.err # <<>>) => store = last.before
  /\ (LastTool("execute_statement") /\ ~last.result.isError)
       => (DirectExec(LastStatementArg).err = ""
             /\ store = DirectExec(LastStatementArg).st)

\* C20: for every tool name other than execute_query, execute_statement,
\* list_tables and describe_table, HandleTool returns the soft error
\* "Unknown tool: <name>" carrying the name, and issues no operation to the
\* database.
C20_UnknownToolRejected ==
  (LastTool(last.name) /\ last.name \notin KnownTools)
    => /\ SoftError("Unknown tool:")
       /\ last.result.text = <<"Unknown tool:", last.name>>
       /\ last.ops = <<>>
       /\ store = last.before

C20_Witness ==
  /\ LastTool("EXECUTE_QUERY")
  /\ last.conn.state = "open"
  /\ "users" \in Tables(store)
  /\ last.result.isError
  /\ last.result.text = <<"Unknown tool:", "EXECUTE_QUERY">>

\* C19: when two requests handled at the same time have both returned, the
\* answers the clients were sent and the database are those of handling the
\* two requests one after the other, in one order or the other, from the
\* database the server started with.
BothReturned == \A p \in 1..2 : flight.calls[p].phase = "done"

\* the answer to q handled alone on database st
Alone(st, q) == Handle(conn, st, q)

\* caller a's request handled first, caller b's second
InOrder(a, b) ==
  /\ flight.calls[a].reply = Reply(RequestOf(a), Alone(store0, RequestOf(a)))
  /\ flight.calls[b].reply =
       Reply(RequestOf(b), Alone(Alone(store0, RequestOf(a)).st, RequestOf(b)))
  /\ store = Alone(Alone(store0, RequestOf(a)).st, RequestOf(b)).st

C19_Serializable ==
  BothReturned => InOrder(1, 2) \/ InOrder(2, 1)

\* the argument key was not sent, or was sent as the empty string
MissingOrEmpty(key) ==
  \/ key \notin DOMAIN last.args
  \/ last.args[key].ty = "string" /\ last.args[key].v = <<>>

RequiredArgument(name) ==
  CASE name = "execute_query" -> "query"
    [] name = "execute_statement" -> "statement"
    [] OTHER -> "table_name"

\* C21: execute_query, execute_statement and describe_table called without
\* their required argument, or with the empty string for it, return the soft
\* error "<argument> parameter is required" and nothing else: no other check
\* answers first and no operation is issued to the database, whether the
\* connection is open or closed.
C21_RequiredArgumentFirst ==
  \A name \in {"execute_query", "execute_statement", "describe_table"} :
    (LastTool(name) /\ MissingOrEmpty(RequiredArgument(name)))
      => /\ last.err = <<>>
         /\ last.result =
              NewToolResultError(<<RequiredArgument(name) \o " parameter is required">>)
         /\ last.ops = <<>>
         /\ store = last.before

C21_Witness ==
  /\ LastTool("execute_query")
  /\ "query" \in DOMAIN last.args
  /\ MissingOrEmpty("query")
  /\ last.conn.state = "open"
  /\ "users" \in Tables(store)
  /\ last.result.text = <<"query parameter is required">>

\* the parameters sent with the last call, none when the argument is absent
SentParameters ==
  IF "parameters" \in DOMAIN last.args THEN last.args["parameters"].v ELSE <<>>

LastSqlTool ==
  (LastTool("execute_query") \/ LastTool("execute_statement")) /\ last.ops # <<>>

InsertedUser == last.before["users"].rows \o
                  << <<IntV(MaxId(last.before["users"].rows) + 1),
                       TextV(SentParameters[1]), TextV(SentParameters[2]),
                       Affinity("INTEGER", TextV(SentParameters[3]))>> >>

\* C23: execute_query and execute_statement hand the parameters array to the
\* database in the order sent, and nothing when the argument is absent; an
\* INSERT with the placeholders (?, ?, ?) for (name, email, age) that
\* succeeds stores the first element as name, the second as email and the
\* third as age, and without parameters its placeholders have no value and
\* the statement fails.
C23_ParametersBoundInOrder ==
  LastSqlTool =>
    /\ last.ops[1].params = SentParameters
    /\ (LastStatementArg = InsertParams /\ ~last.result.isError)
         => /\ Len(SentParameters) = 3
            /\ store = [last.before EXCEPT !["users"].rows = InsertedUser]
    /\ (LastStatementArg = InsertParams /\ SentParameters = <<>>)
         => /\ last.result.isError
            /\ store = last.before
    /\ (LastQueryArg = SelectParams /\ ~last.result.isError)
         => /\ Len(SentParameters) = 2
            /\ last.result.text[2].items =
                 << [n \in {"a", "b"} |->
                       TextV(SentParameters[IF n = "a" THEN 1 ELSE 2])] >>

C23_QueryWitness ==
  /\ LastTool("execute_query")
  /\ LastQueryArg = SelectParams
  /\ ~last.result.isError

C23_Witness ==
  /\ LastTool("execute_statement")
  /\ LastStatementArg = InsertParams
  /\ SentParameters = Charlie
  /\ ~last.result.isError
  /\ store["users"].rows[Len(store["users"].rows)][2] = TextV("Charlie")
  /\ store["users"].rows[Len(store["users"].rows)][4] = IntV(35)

\* the connection as New returned it
AsOpened(c) == [c EXCEPT !.tx = <<>>]

\* C24: a tool call made when the database holds what it held when the
\* connection was opened returns what the same call returns as the first
\* call on the connection, whatever calls came in between.
C24_Stateless ==
  (last.kind = "tool" /\ last.dispatched /\ last.conn.state = "open"
     /\ last.before = store0)
    => last.result = HandleTool(AsOpened(last.conn), store0, last.name, last.args).result

\* the SQL text of the last call to one of the two SQL tools
LastSqlText == IF last.name = "execute_query" THEN LastQueryArg ELSE LastStatementArg

\* the prefix check of execute_query turns the text away
QueryCheckRejects(c, st, text) ==
  handleExecuteQuery(c, st, [k \in {"query"} |-> Str(text)]).result
    = NewToolResultError(<<"only SELECT queries are allowed with execute_query">>)

\* the prefix check of execute_statement turns the text away
StatementCheckRejects(c, st, text) ==
  handleExecuteStatement(c, st, [k \in {"statement"} |-> Str(text)]).result
    = NewToolResultError(<<"SELECT queries should use execute_query tool">>)

\* C25: every non-empty SQL text sent to execute_query or execute_statement
\* is turned away by the prefix check of exactly one of the two tools.
C25_ChecksAreComplements ==
  ((LastTool("execute_query") \/ LastTool("execute_statement")) /\ LastSqlText # <<>>)
    => QueryCheckRejects(last.conn, last.before, LastSqlText)
         # StatementCheckRejects(last.conn, last.before, LastSqlText)

C25_Witness ==
  /\ LastTool("execute_statement")
  /\ LastStatementArg = SelectBlob
  /\ last.conn.state = "open"
  /\ StatementCheckRejects(last.conn, last.before, SelectBlob)
  /\ ~QueryCheckRejects(last.conn, last.before, SelectBlob)
  /\ last.result.isError

\* C26: on a server started with -read-write, a call of execute_query whose
\* text passes the SELECT check leaves the database as it was, also when the
\* text holds further statements after the first.
C26_QueryKeepsDatabase ==
  (pc = "serving" /\ cfg.readWrite /\ LastTool("execute_query")
     /\ LastQueryArg # <<>> /\ StartsWithSelect(LastQueryArg))
    => store = last.before

\* C27: describe_table and a read of schema://table/<name> leave the database
\* as it was, whatever text the name is.
C27_IntrospectionKeepsDatabase ==
  (LastTool("describe_table")
     \/ (LastResource /\ HasPrefix(last.uri, <<"schema://table/">>)))
    => store = last.before

\* MCP_PORT holds a number from 0 to 65535
ValidPort(p) == p # Unset /\ Atoi(p).ok /\ Atoi(p).n >= 0 /\ Atoi(p).n <= 65535

\* C22: when MCP_PORT holds a valid port and -addr is given on the command
\* line, the address the server listens on is ":" followed by MCP_PORT.
C22_PortOverridesAddr ==
  (pc \notin {"args", "help"} /\ ValidPort(proc.env.MCP_PORT)
     /\ proc.argv.addr # Unset)
    => cfg.addr = <<":">> \o proc.env.MCP_PORT

\* C28: when the process has ended after the database was opened, the
\* connection is closed.
C28_ClosedBeforeExit ==
  (pc = "exited" /\ conn.state # "none") => conn.state = "closed"

\* C29: no handler gets "sql: database is closed" from the driver: none
\* issues its database operation after closeDatabase has run.
C29_NoOperationAfterClose ==
  \A p \in 1..2 : flight.calls[p].err # ClosedMsg

====
